---- MODULE Spec2Model ----
(***************************************************************************)
(* PolyStreamX: streaming multi-format export engine.                      *)
(*                                                                         *)
(* The model follows the TypeScript sources:                               *)
(*   - the job registry (ExportJobStore) and the POST /exports route,      *)
(*   - the download route, its stream wiring and its event handlers,       *)
(*   - queryStream (pooled connection, transaction, cursor, iterator),     *)
(*   - the four encoders (csv, json, xml, parquet) driving the cursor,     *)
(*   - selectColumns and the record layout each encoder emits.             *)
(*                                                                         *)
(* JavaScript values are modelled as strings; the string "undefined"       *)
(* stands for the value undefined and "" for the empty string.  The Node   *)
(* stream library is modelled by what pipe(), destroy() and the 'end' and  *)
(* 'error' events do to the streams the routes and encoders create.        *)
(***************************************************************************)
EXTENDS Integers, Sequences, FiniteSets, TLC

(***************************************************************************)
(* Bounds of the model.                                                    *)
(***************************************************************************)
\* jobs the registry may hold
MaxJobs == 2
\* jobs the registry may hold where a single job is followed (SpecData, SpecCreate)
MaxJobsOne == 1
MaxOps == 4
\* download requests in one behaviour (they may overlap)
MaxDownloads == 2
\* rows of the table `records`
MaxRows == 3
\* rows of the table while two downloads overlap
MaxRowsConc == 1
MaxRowsBench == 2
MaxRowsTwo == 2
MaxRowsY == 6
MaxBatchY == 4
YieldRows == 2
ParquetEvery == 3
\* largest value of EXPORT_ROW_LIMIT tried
MaxLimit == 2
\* rows per FETCH of the text encoders (10000 in csv.ts, scaled to the table)
BatchText == 2
\* rows per FETCH of the parquet encoder (50000 in parquet.ts, scaled)
BatchParquet == 1
\* chunks the HTTP response buffers before write() reports backpressure
ResHWM == 1
\* columns of a mapping
MaxCols == 3
\* characters in one text value or target name of the csv round trip
MaxText == 2
\* columns of the csv round trip
MaxCsvCols == 2
\* characters in one input of sanitizeXmlTag
MaxTag == 3
\* characters in one key or text value of the xml document
MaxXmlText == 2

(***************************************************************************)
(* Program constants.                                                      *)
(***************************************************************************)
\* new Pool({ max: 10 })
PoolMax == 10

Undefined == "undefined"

\* JavaScript truthiness of the values the routes test with `!x` or `x &&`
Truthy(v) == v \notin {Undefined, ""}

Min(a, b) == IF a < b THEN a ELSE b
Max(a, b) == IF a < b THEN b ELSE a

Formats == {"csv", "json", "xml", "parquet"}

\* isValidFormat: ['csv','json','xml','parquet'].includes(format)
isValidFormat(format) == format \in Formats

VARIABLES
  jobs,      \* ExportJobStore.jobs: identifier -> job descriptor
  post,      \* the last POST /exports exchange: request, response, effect
  table,     \* the rows of `records`, in the order the database returns them
  envLimit,  \* process.env.EXPORT_ROW_LIMIT
  pool,      \* connections of the pool that are checked out
  dl,        \* the download requests: route, encoder, cursor, streams, response
  enc        \* one application of an encoder's record layout: input and output

vars == <<jobs, post, table, envLimit, pool, dl, enc>>

(***************************************************************************)
(* Job registry (ExportJobStore).                                          *)
(***************************************************************************)
JobIds == 1..MaxJobs

\* an identifier generator that hands out one identifier again and again
uuidRepeated(js) == 1

\* uuidv4(): an identifier no job holds; identifiers are opaque, the least
\* unused one is taken
uuidv4(js) == CHOOSE id \in JobIds : id \notin DOMAIN js /\ \A k \in JobIds : k < id => k \in DOMAIN js

\* this.jobs.set(job.id, job): an entry under the same key is replaced;
\* createdAt is the place of the job in the order of creation
createJob(js, id, request) ==
  (id :> [id |-> id,
          format |-> request.format,
          columns |-> request.columns.items,
          compression |-> request.compression,
          status |-> "pending",
          createdAt |-> Cardinality(DOMAIN js) + 1,
          completedAt |-> FALSE,
          error |-> Undefined]) @@ js

\* Map.get: defined exactly for the identifiers the map holds
hasJob(js, id) == id \in DOMAIN js

\* an update that lands on the job stored first, whatever job is named
updateJobStatusFirst(js, id, status, error) ==
  IF DOMAIN js # {}
    THEN LET first == CHOOSE j \in DOMAIN js : \A k \in DOMAIN js : j <= k IN
           [js EXCEPT ![first] =
              [@ EXCEPT !.status = status,
                        !.completedAt = IF status \in {"completed", "failed"} THEN TRUE ELSE @,
                        !.error = IF Truthy(error) THEN error ELSE @]]
    ELSE js

\* an update that stores a job under an identifier the registry does not hold
updateJobStatusUpsert(js, id, status, error) ==
  [j \in DOMAIN js \cup {id} |->
     [id |-> j,
      format |-> IF j \in DOMAIN js THEN js[j].format ELSE "csv",
      columns |-> IF j \in DOMAIN js THEN js[j].columns ELSE <<>>,
      compression |-> IF j \in DOMAIN js THEN js[j].compression ELSE Undefined,
      status |-> IF j = id THEN status ELSE js[j].status,
      createdAt |-> IF j \in DOMAIN js THEN js[j].createdAt ELSE 0,
      completedAt |-> IF j = id THEN status \in {"completed", "failed"} ELSE js[j].completedAt,
      error |-> IF j = id THEN error ELSE js[j].error]]

updateJobStatus(js, id, status, error) ==
  IF hasJob(js, id)
    THEN [js EXCEPT ![id] =
           [@ EXCEPT !.status = status,
                     !.completedAt = IF status \in {"completed", "failed"} THEN TRUE ELSE @,
                     !.error = IF Truthy(error) THEN error ELSE @]]
    ELSE js

(***************************************************************************)
(* POST /exports.                                                          *)
(***************************************************************************)
\* req.body.columns: missing, not an array, or an array whose items are
\* {source, target} objects or null
ColMissing == [kind |-> "missing", items |-> <<>>]
ColString == [kind |-> "string", items |-> <<>>]
ColArray(items) == [kind |-> "array", items |-> items]

Col(s, t) == [obj |-> TRUE, source |-> s, target |-> t]
NullCol == [obj |-> FALSE, source |-> Undefined, target |-> Undefined]

\* `!col.source || !col.target`; reading a property of null throws
badColumn(col) == ~col.obj \/ ~Truthy(col.source) \/ ~Truthy(col.target)

\* the first column the loop of router.post('/') stops at, 0 if none
firstBadColumn(items) ==
  IF \E i \in 1..Len(items) : badColumn(items[i])
    THEN CHOOSE i \in 1..Len(items) :
           badColumn(items[i]) /\ \A k \in 1..(i - 1) : ~badColumn(items[k])
    ELSE 0

\* `compression && compression !== 'gzip'`
badCompression(compression) == Truthy(compression) /\ compression # "gzip"

\* the validation of router.post('/'): the status it answers, 201 when it
\* goes on to create the job, 500 when the handler throws (the catch block)
validateRequest(req) ==
  IF ~Truthy(req.format) \/ ~isValidFormat(req.format) THEN 400
  ELSE IF req.columns.kind # "array" \/ Len(req.columns.items) = 0 THEN 400
  ELSE IF firstBadColumn(req.columns.items) # 0
    THEN (IF req.columns.items[firstBadColumn(req.columns.items)].obj THEN 400 ELSE 500)
  ELSE IF badCompression(req.compression) THEN 400
  ELSE 201

\* cap: the jobs the registry may hold in the specification at hand
PostExport(req, cap) ==
  /\ LET status == validateRequest(req) IN
       /\ status = 201 => Cardinality(DOMAIN jobs) < cap
       /\ jobs' = IF status = 201 THEN createJob(jobs, uuidv4(jobs), req) ELSE jobs
       /\ post' = [req |-> req, status |-> status, changed |-> jobs' # jobs]
  /\ UNCHANGED <<table, envLimit, pool, dl, enc>>

(***************************************************************************)
(* The table, the row limit and the cursor's result set.                   *)
(***************************************************************************)
\* Math.max(0, Math.floor(Number(options.rowLimit ?? process.env.EXPORT_ROW_LIMIT ?? 0)))
\* a download passes no options.rowLimit
rowLimitOf(env) == Max(0, env)

\* `SELECT ... FROM records` with ` LIMIT n` appended when rowLimit > 0
resultSet(env) ==
  IF rowLimitOf(env) > 0
    THEN SubSeq(table, 1, Min(Len(table), rowLimitOf(env)))
    ELSE table

\* one cursor shared by all downloads: a FETCH goes on where the furthest
\* download stands
fetchRowsSharedCursor(env, pos, batchSize) ==
  LET furthest == CHOOSE p \in {dl[d].pos : d \in DOMAIN dl} :
                    \A d \in DOMAIN dl : dl[d].pos <= p
  IN SubSeq(resultSet(env), furthest + 1, Min(furthest + batchSize, Len(resultSet(env))))

\* FETCH batchSize FROM cursor, the cursor standing after `pos` rows
fetchRows(env, pos, batchSize) ==
  SubSeq(resultSet(env), pos + 1, Min(pos + batchSize, Len(resultSet(env))))

batchSizeOf(fmt) == IF fmt = "parquet" THEN BatchParquet ELSE BatchText

\* `batches.length >= 100000`: two fetches of 50000 rows
ParquetFlushRows == 2 * BatchParquet

(***************************************************************************)
(* Chunks an encoder writes to its PassThrough.                            *)
(***************************************************************************)
Tok(k, id) == [k |-> k, id |-> id]

\* written before the cursor is opened: the csv header line, the json '[',
\* the xml declaration and <records> (two writes); parquet writes nothing
headerToks(fmt) ==
  CASE fmt = "csv" -> <<Tok("hdr", 0)>>
    [] fmt = "json" -> <<Tok("hdr", 0)>>
    [] fmt = "xml" -> <<Tok("hdr", 0), Tok("hdr", 1)>>
    [] OTHER -> <<>>

\* an encoder that ends its stream without a closing write
footerToksNone(fmt) == <<>>

\* written after the loop: nothing for csv, ']' for json, </records> for xml
footerToks(fmt) ==
  CASE fmt = "json" -> <<Tok("ftr", 0)>>
    [] fmt = "xml" -> <<Tok("ftr", 0)>>
    [] OTHER -> <<>>

\* a json encoder whose firstRow flag starts anew with every batch
RECURSIVE rowToksFirstPerBatch(_, _, _)
rowToksFirstPerBatch(fmt, rows, firstRow) ==
  IF rows = <<>> THEN <<>>
  ELSE <<Tok("row", Head(rows))>>
         \o (IF fmt = "json" /\ Tail(rows) # <<>> THEN <<Tok("sep", 0)>> ELSE <<>>)
         \o rowToksFirstPerBatch(fmt, Tail(rows), FALSE)

\* the writes for the rows of one batch; json writes ',\n' before every row
\* but the first of the export (`if (!firstRow)`)
RECURSIVE rowToks(_, _, _)
rowToks(fmt, rows, firstRow) ==
  IF rows = <<>> THEN <<>>
  ELSE (IF fmt = "json" /\ ~firstRow THEN <<Tok("sep", 0)>> ELSE <<>>)
         \o <<Tok("row", Head(rows))>>
         \o rowToks(fmt, Tail(rows), FALSE)

\* columns.map(col => col.target).join(',') on strings
RECURSIVE joinTargets(_)
joinTargets(columns) ==
  IF columns = <<>> THEN ""
  ELSE IF Len(columns) = 1 THEN columns[1].target
  ELSE columns[1].target \o "," \o joinTargets(Tail(columns))

\* the text of one chunk; a record is left as a placeholder, its layout is
\* the subject of emitRecord
chunkText(fmt, columns, tok) ==
  CASE fmt = "csv" /\ tok.k = "hdr" -> joinTargets(columns) \o "\n"
    [] fmt = "json" /\ tok.k = "hdr" -> "[\n"
    [] fmt = "json" /\ tok.k = "sep" -> ",\n"
    [] fmt = "json" /\ tok.k = "ftr" -> "\n]"
    [] fmt = "xml" /\ tok.k = "hdr" /\ tok.id = 0 ->
         "<?xml version=\"1.0\" encoding=\"UTF-8\"?>\n"
    [] fmt = "xml" /\ tok.k = "hdr" /\ tok.id = 1 -> "<records>\n"
    [] fmt = "xml" /\ tok.k = "ftr" -> "</records>"
    [] OTHER -> "(record)"

\* the body: the chunks' texts one after the other
RECURSIVE bodyText(_, _, _)
bodyText(fmt, columns, toks) ==
  IF toks = <<>> THEN ""
  ELSE chunkText(fmt, columns, Head(toks)) \o bodyText(fmt, columns, Tail(toks))

\* the rows among a sequence of chunks
RECURSIVE rowsOf(_)
rowsOf(toks) ==
  IF toks = <<>> THEN <<>>
  ELSE IF Head(toks).k = "row" THEN <<Head(toks).id>> \o rowsOf(Tail(toks))
  ELSE rowsOf(Tail(toks))

(***************************************************************************)
(* The HTTP response of a download.                                        *)
(***************************************************************************)
NewRes == [headersSent |-> FALSE, status |-> 0, errBody |-> 0, ended |-> FALSE,
           contentType |-> "none", gzipHeader |-> FALSE]

\* res.status(code).json({error}): status line, headers and body in one go;
\* json() names the media type only when no Content-Type header is set yet
resJson(res, code) ==
  [res EXCEPT !.headersSent = TRUE, !.status = code, !.errBody = @ + 1, !.ended = TRUE,
              !.contentType = IF @ = "none" THEN "application/json" ELSE @]

\* res.write(chunk) by pipe(): the first one sends the headers with the
\* default status 200
resWrite(res) ==
  IF res.headersSent THEN res ELSE [res EXCEPT !.headersSent = TRUE, !.status = 200]

resEnd(res) ==
  IF res.headersSent THEN [res EXCEPT !.ended = TRUE]
  ELSE [res EXCEPT !.headersSent = TRUE, !.status = 200, !.ended = TRUE]

\* an error handler that answers 500 without looking at headersSent
respondErrorUnguarded(res) == resJson(res, 500)

\* `if (!res.headersSent) res.status(500).json(...) else res.end()`
respondError(res) ==
  IF ~res.headersSent THEN resJson(res, 500) ELSE resEnd(res)

\* error handlers that each answer 500 without looking at headersSent
respondEachTime(res, n) == [resJson(res, 500) EXCEPT !.errBody = res.errBody + n]

RECURSIVE respondErrorTimes(_, _)
respondErrorTimes(res, n) ==
  IF n = 0 THEN res ELSE respondErrorTimes(respondError(res), n - 1)

\* a media type lookup that only knows its default
getContentTypeDefault(fmt) == "application/octet-stream"

getContentType(fmt) ==
  CASE fmt = "csv" -> "text/csv"
    [] fmt = "json" -> "application/json"
    [] fmt = "xml" -> "application/xml"
    [] OTHER -> "application/octet-stream"

(***************************************************************************)
(* One download request: GET /exports/:exportId/download.                  *)
(***************************************************************************)
Dls == 1..MaxDownloads

IdleDl ==
  [rt |-> "idle",          \* route: idle, notfound, setupfailed, streaming
   job |-> 0,              \* req.params.exportId
   fmt |-> "none",         \* job.format
   gz |-> FALSE,           \* outputStream is a gzip transform fed by dataStream
   enc |-> "none",         \* where the encoder's async body stands
   fin |-> "none",         \* why the iterator's finally block runs
   conn |-> "none",        \* the pooled client: none, held, released
   txn |-> FALSE,          \* a transaction is open on the client
   cursor |-> "none",      \* the server-side cursor: none, open, closed
   releases |-> 0,         \* calls of client.release()
   pos |-> 0,              \* rows the cursor has returned
   batches |-> <<>>,       \* parquet: rows held in memory
   file |-> <<>>,          \* parquet: rows written to the temp file
   hasFile |-> FALSE,      \* parquet: the temp file exists
   filePos |-> 0,          \* parquet: rows read back from the temp file
   tmp |-> FALSE,          \* parquet: the temp directory exists
   out |-> <<>>,           \* chunks written to dataStream so far
   firstRow |-> TRUE,      \* json: no row has been written yet
   piped |-> 0,            \* chunks of `out` written to the response
   flushed |-> 0,          \* chunks the client has received
   paused |-> FALSE,       \* pipe() paused the source until 'drain'
   flowing |-> FALSE,      \* outputStream is piped to the response
   endEmitted |-> FALSE,   \* outputStream emitted 'end'
   gzErr |-> FALSE,        \* the gzip transform failed
   client |-> "open",      \* the HTTP client: open, gone
   midStream |-> FALSE,    \* the client left after rows were sent, the encoder running
   res |-> NewRes,
   failure |-> "none"]     \* the first stage of this download that failed

\* the handler of outputStream 'end'
onEnd(js, id) == updateJobStatus(js, id, "completed", Undefined)

\* the handlers of 'error' on outputStream and on dataStream
onError(js, id, message) == updateJobStatus(js, id, "failed", message)

\* the catch block of the route: it answers and leaves the job alone
onSetupError(js, id) == js

\* 'error' on dataStream runs the dataStream handler and, when no gzip
\* transform sits behind it (outputStream === dataStream), the outputStream
\* handler as well
errorHandlers(r) == IF r.gz THEN 1 ELSE 2

noteFailure(r, stage) == [r EXCEPT !.failure = IF @ = "none" THEN stage ELSE @]

\* the encoder's catch: passThrough.destroy(error) (parquet also removes its
\* temp directory); the stream drops its buffer and emits 'error'
destroyData(r, stage) ==
  [noteFailure(r, stage) EXCEPT
     !.enc = "destroyed",
     !.flowing = FALSE,
     !.tmp = FALSE,
     !.res = respondErrorTimes(@, errorHandlers(r))]

\* res.setHeader(...) of the route
setHeaders(res, job) ==
  [res EXCEPT !.contentType = getContentType(job.format),
              !.gzipHeader = (job.compression = "gzip")]

\* createExportStream resolved: the encoder wrote its header and asked the
\* pool for a connection; the route piped the stream and attached handlers
startStream(r, job) ==
  [r EXCEPT !.rt = "streaming", !.job = job.id, !.fmt = job.format,
            !.gz = (job.compression = "gzip"),
            !.res = setHeaders(@, job),
            !.out = headerToks(job.format),
            !.tmp = (job.format = "parquet"),
            !.enc = "connect",
            !.flowing = TRUE]

\* createExportStream rejected (parquet: fs.mkdirSync threw): the catch block
setupFailed(r, job) ==
  [noteFailure(r, "setup") EXCEPT
     !.rt = "setupfailed", !.job = job.id, !.fmt = job.format,
     !.res = respondError(setHeaders(@, job))]

\* the readable side emits 'end' once it has ended and its last chunk was read
endNow(r) ==
  r.enc = "ended" /\ r.piped = Len(r.out) /\ r.flowing /\ ~r.gzErr /\ ~r.endEmitted

\* 'end': pipe() ends the response, then the route's handler runs
emitEnd(r) == [r EXCEPT !.endEmitted = TRUE, !.res = resEnd(@)]

\* a step of download d that leaves it as r and may let 'end' fire
Continue(d, r, mayEnd) ==
  LET fire == mayEnd /\ endNow(r) IN
    /\ dl' = [dl EXCEPT ![d] = IF fire THEN emitEnd(r) ELSE r]
    /\ jobs' = IF fire THEN onEnd(jobs, r.job) ELSE jobs

\* a step of download d in which the encoder's body throws
Throw(d, r, stage) ==
  /\ dl' = [dl EXCEPT ![d] = destroyData(r, stage)]
  /\ jobs' = onError(jobs, r.job, stage)

\* a lookup that takes a pooled client before it finds the job missing
notFoundHoldingClient(r, id) ==
  [r EXCEPT !.rt = "notfound", !.job = id, !.conn = "held", !.res = resJson(@, 404)]

\* `if (!job) return res.status(404).json(...)`
notFound(r, id) ==
  [r EXCEPT !.rt = "notfound", !.job = id, !.res = resJson(@, 404)]

Download(d, id) ==
  /\ dl[d].rt = "idle"
  /\ d > 1 => dl[d - 1].rt # "idle"
  /\ IF ~hasJob(jobs, id)
       THEN /\ dl' = [dl EXCEPT ![d] = notFound(@, id)]
            /\ jobs' = jobs
       ELSE \E ok \in (IF jobs[id].format = "parquet" THEN BOOLEAN ELSE {TRUE}) :
              IF ok
                THEN /\ jobs' = updateJobStatus(jobs, id, "in_progress", Undefined)
                     /\ dl' = [dl EXCEPT ![d] = startStream(@, jobs[id])]
                ELSE /\ jobs' = onSetupError(updateJobStatus(jobs, id, "in_progress", Undefined), id)
                     /\ dl' = [dl EXCEPT ![d] = setupFailed(@, jobs[id])]
  /\ UNCHANGED <<post, table, envLimit, pool, enc>>

(***************************************************************************)
(* queryStream: connection, transaction, cursor, iterator.                 *)
(***************************************************************************)
\* client.release()
release(r) == [r EXCEPT !.conn = "released", !.releases = @ + 1]

\* the catch block of queryStream: BEGIN or DECLARE threw
queryStreamCatch(r) == release(r)

\* a finally block whose release is followed by the release of the catch block
finallyReleaseCaught(r) == queryStreamCatch(release([r EXCEPT !.txn = FALSE]))

\* the iterator's finally block after COMMIT resolved
finallyRelease(r) == release([r EXCEPT !.txn = FALSE])

\* a loop that takes a batch shorter than the batch size for the last one
loopEndsOnShortBatch(rows, batchSize) == Len(rows) < batchSize

\* `if (result.rows.length === 0) break`
loopEnds(rows, batchSize) == Len(rows) = 0

\* await getConnection() resolved
ConnectOk(d) ==
  /\ dl[d].enc = "connect"
  /\ pool < PoolMax
  /\ pool' = pool + 1
  /\ dl' = [dl EXCEPT ![d] = [@ EXCEPT !.conn = "held", !.enc = "begin"]]
  /\ UNCHANGED <<jobs, post, table, envLimit, enc>>

\* await getConnection() rejected: nothing to release
ConnectFail(d) ==
  /\ dl[d].enc = "connect"
  /\ Throw(d, dl[d], "connect")
  /\ UNCHANGED <<post, table, envLimit, pool, enc>>

BeginOk(d) ==
  /\ dl[d].enc = "begin"
  /\ dl' = [dl EXCEPT ![d] = [@ EXCEPT !.txn = TRUE, !.enc = "declare"]]
  /\ UNCHANGED <<jobs, post, table, envLimit, pool, enc>>

BeginFail(d) ==
  /\ dl[d].enc = "begin"
  /\ Throw(d, queryStreamCatch(dl[d]), "begin")
  /\ pool' = pool - 1
  /\ UNCHANGED <<post, table, envLimit, enc>>

DeclareOk(d) ==
  /\ dl[d].enc = "declare"
  /\ dl' = [dl EXCEPT ![d] = [@ EXCEPT !.cursor = "open", !.enc = "fetch"]]
  /\ UNCHANGED <<jobs, post, table, envLimit, pool, enc>>

DeclareFail(d) ==
  /\ dl[d].enc = "declare"
  /\ Throw(d, queryStreamCatch(dl[d]), "declare")
  /\ pool' = pool - 1
  /\ UNCHANGED <<post, table, envLimit, enc>>

\* the rows of one batch handled by the loop body of an encoder
takeBatch(r, rows) ==
  IF r.fmt = "parquet"
    THEN [r EXCEPT !.pos = @ + Len(rows),
                   !.batches = @ \o rows,
                   !.enc = IF Len(r.batches \o rows) >= ParquetFlushRows
                             THEN "writebatch" ELSE "fetch"]
    ELSE [r EXCEPT !.pos = @ + Len(rows),
                   !.out = @ \o rowToks(r.fmt, rows, r.firstRow),
                   !.firstRow = @ /\ rows = <<>>]

\* what the encoder does once the loop is over and the iterator is done
afterLoop(r) ==
  IF r.fmt = "parquet"
    THEN [r EXCEPT !.enc = IF Len(r.batches) > 0 THEN "writefinal" ELSE "filestream"]
    ELSE [r EXCEPT !.out = @ \o footerToks(r.fmt), !.enc = "ended"]

\* an encoder that finishes its output when the empty batch arrives, ahead
\* of the iterator's finally block
FetchOkEndsFirst(d) ==
  /\ dl[d].enc = "fetch"
  /\ LET rows == fetchRows(envLimit, dl[d].pos, batchSizeOf(dl[d].fmt)) IN
       dl' = [dl EXCEPT ![d] =
                IF loopEnds(rows, batchSizeOf(dl[d].fmt))
                  THEN afterLoop([@ EXCEPT !.fin = "exhausted"])
                  ELSE takeBatch(@, rows)]
  /\ UNCHANGED <<jobs, post, table, envLimit, pool, enc>>

\* FETCH resolved
FetchOk(d) ==
  /\ dl[d].enc = "fetch"
  /\ LET rows == fetchRows(envLimit, dl[d].pos, batchSizeOf(dl[d].fmt)) IN
       dl' = [dl EXCEPT ![d] =
                IF loopEnds(rows, batchSizeOf(dl[d].fmt))
                  THEN [@ EXCEPT !.fin = "exhausted", !.enc = "close"]
                  ELSE takeBatch(@, rows)]
  /\ UNCHANGED <<jobs, post, table, envLimit, pool, enc>>

\* an iterator that takes a rejected FETCH for the end of the cursor
FetchFailSwallowed(d) ==
  /\ dl[d].enc = "fetch"
  /\ dl' = [dl EXCEPT ![d] = [noteFailure(@, "fetch") EXCEPT !.fin = "exhausted", !.enc = "close"]]
  /\ UNCHANGED <<jobs, post, table, envLimit, pool, enc>>

\* FETCH rejected: the finally block runs, then the error goes on
FetchFail(d) ==
  /\ dl[d].enc = "fetch"
  /\ dl' = [dl EXCEPT ![d] = [noteFailure(@, "fetch") EXCEPT !.fin = "fetcherr", !.enc = "close"]]
  /\ UNCHANGED <<jobs, post, table, envLimit, pool, enc>>

\* finally: CLOSE resolved
CloseOk(d) ==
  /\ dl[d].enc = "close"
  /\ dl' = [dl EXCEPT ![d] = [@ EXCEPT !.cursor = "closed", !.enc = "commit"]]
  /\ UNCHANGED <<jobs, post, table, envLimit, pool, enc>>

\* finally: CLOSE rejected, the block is left before COMMIT and release()
CloseFail(d) ==
  /\ dl[d].enc = "close"
  /\ Throw(d, dl[d], "close")
  /\ UNCHANGED <<post, table, envLimit, pool, enc>>

\* finally: COMMIT resolved, the client is released
CommitOk(d) ==
  /\ dl[d].enc = "commit"
  /\ pool' = pool - 1
  /\ IF dl[d].fin = "exhausted"
       THEN Continue(d, afterLoop(finallyRelease(dl[d])), ~dl[d].paused)
       ELSE Throw(d, finallyRelease(dl[d]), dl[d].failure)
  /\ UNCHANGED <<post, table, envLimit, enc>>

\* finally: COMMIT rejected, release() is not reached
CommitFail(d) ==
  /\ dl[d].enc = "commit"
  /\ Throw(d, dl[d], "commit")
  /\ UNCHANGED <<post, table, envLimit, pool, enc>>

(***************************************************************************)
(* parquet: temp file written by writeBatch, then streamed back.           *)
(***************************************************************************)
\* writeBatch resolved: the rows held in memory are appended to the file
WriteOk(d) ==
  /\ dl[d].enc \in {"writebatch", "writefinal"}
  /\ dl' = [dl EXCEPT ![d] =
              [@ EXCEPT !.file = @ \o dl[d].batches,
                        !.hasFile = TRUE,
                        !.batches = IF dl[d].enc = "writebatch" THEN <<>> ELSE @,
                        !.enc = IF dl[d].enc = "writebatch" THEN "fetch" ELSE "filestream"]]
  /\ UNCHANGED <<jobs, post, table, envLimit, pool, enc>>

\* writeBatch rejected inside the loop: for-await returns the iterator
\* (its finally block runs), then the error reaches the encoder's catch
WriteFailInLoop(d) ==
  /\ dl[d].enc = "writebatch"
  /\ dl' = [dl EXCEPT ![d] = [noteFailure(@, "write") EXCEPT !.fin = "abandon", !.enc = "close"]]
  /\ UNCHANGED <<jobs, post, table, envLimit, pool, enc>>

\* writeBatch rejected after the loop
WriteFailFinal(d) ==
  /\ dl[d].enc = "writefinal"
  /\ Throw(d, dl[d], "write")
  /\ UNCHANGED <<post, table, envLimit, pool, enc>>

\* fileStream.pipe(passThrough): one more row of the file
FileChunk(d) ==
  /\ dl[d].enc = "filestream"
  /\ dl[d].hasFile
  /\ dl[d].filePos < Len(dl[d].file)
  /\ dl' = [dl EXCEPT ![d] =
              [@ EXCEPT !.out = Append(@, Tok("row", dl[d].file[dl[d].filePos + 1])),
                        !.filePos = @ + 1]]
  /\ UNCHANGED <<jobs, post, table, envLimit, pool, enc>>

\* fileStream 'end': the temp directory is removed, pipe() ends passThrough
FileEnd(d) ==
  /\ dl[d].enc = "filestream"
  /\ dl[d].hasFile
  /\ dl[d].filePos = Len(dl[d].file)
  /\ Continue(d, [dl[d] EXCEPT !.enc = "ended", !.tmp = FALSE], ~dl[d].paused)
  /\ UNCHANGED <<post, table, envLimit, pool, enc>>

\* fileStream 'error': no file was ever written (ENOENT), or a read failed
FileError(d) ==
  /\ dl[d].enc = "filestream"
  /\ Throw(d, dl[d], IF dl[d].hasFile THEN "file" ELSE "enoent")
  /\ UNCHANGED <<post, table, envLimit, pool, enc>>

(***************************************************************************)
(* The streams between the encoder and the client.                         *)
(***************************************************************************)
\* pipe(): one chunk of outputStream is written to the response
Pipe(d) ==
  /\ dl[d].rt = "streaming"
  /\ dl[d].flowing /\ ~dl[d].paused /\ ~dl[d].gzErr
  /\ dl[d].piped < Len(dl[d].out)
  /\ Continue(d, [dl[d] EXCEPT !.piped = @ + 1,
                               !.res = resWrite(@),
                               !.paused = (dl[d].piped + 1 - dl[d].flushed >= ResHWM)],
              TRUE)
  /\ UNCHANGED <<post, table, envLimit, pool, enc>>

\* the socket takes one chunk of the response; 'drain' resumes the source
Flush(d) ==
  /\ dl[d].client = "open"
  /\ dl[d].flushed < dl[d].piped
  /\ Continue(d, [dl[d] EXCEPT !.flushed = @ + 1,
                               !.paused = IF dl[d].flushed + 1 = dl[d].piped THEN FALSE ELSE @],
              dl[d].flushed + 1 = dl[d].piped)
  /\ UNCHANGED <<post, table, envLimit, pool, enc>>

\* the client goes away: the response closes and pipe() unpipes the source
Disconnect(d) ==
  /\ dl[d].rt = "streaming"
  /\ dl[d].client = "open"
  /\ ~(dl[d].res.ended /\ dl[d].flushed = dl[d].piped)
  /\ dl' = [dl EXCEPT ![d] =
              [@ EXCEPT !.client = "gone", !.flowing = FALSE,
                        !.midStream = /\ Len(rowsOf(SubSeq(dl[d].out, 1, dl[d].piped))) > 0
                                      /\ dl[d].enc \notin {"ended", "destroyed"}]]
  /\ UNCHANGED <<jobs, post, table, envLimit, pool, enc>>

\* the gzip transform fails: only the outputStream handler hears of it
GzipError(d) ==
  /\ dl[d].rt = "streaming"
  /\ dl[d].gz /\ ~dl[d].gzErr /\ ~dl[d].endEmitted
  /\ dl[d].enc # "destroyed"
  /\ dl' = [dl EXCEPT ![d] = [noteFailure(@, "gzip") EXCEPT !.gzErr = TRUE, !.flowing = FALSE,
                                                            !.res = respondError(@)]]
  /\ jobs' = onError(jobs, dl[d].job, "gzip")
  /\ UNCHANGED <<post, table, envLimit, pool, enc>>

(***************************************************************************)
(* Specifications.                                                         *)
(*   Spec      two overlapping downloads of text-format jobs, small table  *)
(*   SpecData  one download of a job of any format, tables up to MaxRows   *)
(*             rows and every row limit                                    *)
(***************************************************************************)
NoReq == [format |-> Undefined, columns |-> ColMissing, compression |-> Undefined]
NoPost == [req |-> NoReq, status |-> 0, changed |-> FALSE]
NoEnc == [pc |-> "off", fmt |-> "csv", columns |-> <<>>, row |-> <<>>, fields |-> <<>>]

TablesUpTo(n) == {[i \in 1..k |-> i] : k \in 0..n}

Request(f, c) == [format |-> f, columns |-> ColArray(<<Col("id", "a")>>), compression |-> c]

\* the steps of a download that every format takes
StreamStep(d) ==
  \/ ConnectOk(d)
  \/ ConnectFail(d)
  \/ BeginOk(d)
  \/ BeginFail(d)
  \/ DeclareOk(d)
  \/ DeclareFail(d)
  \/ FetchOk(d)
  \/ FetchFail(d)
  \/ CloseOk(d)
  \/ CloseFail(d)
  \/ CommitOk(d)
  \/ CommitFail(d)
  \/ Pipe(d)
  \/ Flush(d)
  \/ Disconnect(d)

\* the steps only the parquet encoder takes
ParquetStep(d) ==
  \/ WriteOk(d)
  \/ WriteFailInLoop(d)
  \/ WriteFailFinal(d)
  \/ FileChunk(d)
  \/ FileEnd(d)
  \/ FileError(d)

InitWith(tables, limits) ==
  /\ jobs = <<>>
  /\ post = NoPost
  /\ table \in tables
  /\ envLimit \in limits
  /\ pool = 0
  /\ dl = [d \in Dls |-> IdleDl]
  /\ enc = NoEnc

\* the requests posted in Spec
TextRequests == {Request("csv", Undefined)}

Init == InitWith(TablesUpTo(MaxRowsConc), {0})

Next ==
  \/ \E req \in TextRequests : PostExport(req, MaxJobs)
  \/ \E d \in Dls, id \in JobIds : Download(d, id)
  \/ \E d \in Dls : StreamStep(d)

Spec == Init /\ [][Next]_vars

\* the requests posted in SpecData
DataRequests == {Request(f, c) : f \in Formats, c \in {Undefined, "gzip"}}

InitData == InitWith(TablesUpTo(MaxRows), -1..MaxLimit)

NextData ==
  \/ \E req \in DataRequests : PostExport(req, MaxJobsOne)
  \/ \E id \in JobIds : Download(1, id)
  \/ StreamStep(1)
  \/ GzipError(1)
  \/ ParquetStep(1)

SpecData == InitData /\ [][NextData]_vars

(***************************************************************************)
(* SpecCreate: POST /exports over every kind of request body.              *)
(***************************************************************************)
ColumnInputs ==
  {ColMissing, ColString, ColArray(<<>>),
   ColArray(<<Col("id", "a")>>),
   ColArray(<<Col("id", "a"), Col("name", "b")>>),
   ColArray(<<Col("password", "a")>>),
   ColArray(<<Col("", "a")>>),
   ColArray(<<Col("id", "")>>),
   ColArray(<<Col("id", "a"), Col("name", Undefined)>>),
   ColArray(<<NullCol>>)}

AllRequests ==
  {[format |-> f, columns |-> c, compression |-> z] :
     f \in Formats \cup {"yaml", Undefined},
     c \in ColumnInputs,
     z \in {Undefined, "gzip", "zip", ""}}

InitCreate == InitWith({<<>>}, {0})

NextCreate == \E req \in AllRequests : PostExport(req, MaxJobsOne)

SpecCreate == InitCreate /\ [][NextCreate]_vars

(***************************************************************************)
(* SpecJobs: a sequence of POST /exports, valid and invalid, filling the   *)
(* registry.                                                               *)
(***************************************************************************)
JobRequests == DataRequests \cup {Request("yaml", Undefined)}

NextJobs == \E req \in JobRequests : PostExport(req, MaxJobs)

SpecJobs == InitCreate /\ [][NextJobs]_vars

(***************************************************************************)
(* The layout of one emitted record.  A JavaScript object is the sequence  *)
(* of its own properties <<key, value>> in enumeration order: the keys     *)
(* that are array indices first, ascending, then the others in the order   *)
(* they were first assigned.                                               *)
(***************************************************************************)
Sources == {"id", "name"}
ArrayIndexKeys == {"1", "2"}
Targets == {"a", "b"} \cup ArrayIndexKeys
keyNum(k) == IF k = "1" THEN 1 ELSE 2

\* the rows the database returns, keyed by source column
DbRows == {[id |-> "7", name |-> "x"], [id |-> "8", name |-> "y"]}

hasKey(obj, k) == \E i \in 1..Len(obj) : obj[i][1] = k

\* the position a new key takes in the enumeration order of obj
insertAt(obj, k) ==
  IF k \in ArrayIndexKeys
  THEN 1 + Cardinality({i \in 1..Len(obj) :
                          obj[i][1] \in ArrayIndexKeys /\ keyNum(obj[i][1]) < keyNum(k)})
  ELSE Len(obj) + 1

\* `result[target] = value`
setProp(obj, k, v) ==
  IF hasKey(obj, k)
  THEN [i \in 1..Len(obj) |-> IF obj[i][1] = k THEN <<k, v>> ELSE obj[i]]
  ELSE LET p == insertAt(obj, k) IN
         SubSeq(obj, 1, p - 1) \o <<(<<k, v>>)>> \o SubSeq(obj, p, Len(obj))

getProp(obj, k) ==
  IF hasKey(obj, k) THEN obj[CHOOSE i \in 1..Len(obj) : obj[i][1] = k][2] ELSE Undefined

RECURSIVE selectColumnsFrom(_, _, _)
selectColumnsFrom(result, row, columns) ==
  IF columns = <<>> THEN result
  ELSE selectColumnsFrom(setProp(result, Head(columns).target, row[Head(columns).source]),
                         row, Tail(columns))

selectColumns(row, columns) == selectColumnsFrom(<<>>, row, columns)

\* the characters of the classes [a-zA-Z] and [0-9] that occur here
Letters == {"a", "b", "c", "d", "e", "i", "m", "o", "r", "s", "t"}
Digits == {"0", "1", "2"}

\* [a-zA-Z0-9_-]
isTagChar(c) == c \in Letters \cup Digits \cup {"_", "-"}

\* sanitizeXmlTag on a string given as the sequence of its characters
sanitizeXmlTag(tag) ==
  LET sanitized == [i \in 1..Len(tag) |-> IF isTagChar(tag[i]) THEN tag[i] ELSE "_"] IN
    IF Len(sanitized) > 0 /\ sanitized[1] \in Digits
      THEN <<"_">> \o sanitized
      ELSE sanitized

\* the name the format gives the field of target t, a one-character key
fieldName(fmt, t) == IF fmt = "xml" THEN sanitizeXmlTag(<<t>>) ELSE t

\* the fields <<name, value>> of the record a format emits for one row
emitRecord(fmt, row, columns) ==
  LET selectedRow == selectColumns(row, columns) IN
    CASE fmt = "csv" ->
           \* the header line names the targets; the row is Object.values
           [i \in 1..Len(selectedRow) |-> <<columns[i].target, selectedRow[i][2]>>]
      [] fmt = "json" -> selectedRow
      [] fmt = "xml" ->
           [i \in 1..Len(selectedRow) |->
              <<sanitizeXmlTag(<<selectedRow[i][1]>>), selectedRow[i][2]>>]
      [] OTHER ->
           [i \in 1..Len(columns) |->
              <<columns[i].target, getProp(selectedRow, columns[i].target)>>]

RECURSIVE SeqsUpTo(_, _)
SeqsUpTo(S, n) ==
  IF n = 0 THEN {<<>>}
  ELSE LET shorter == SeqsUpTo(S, n - 1) IN
         shorter \cup {Append(q, x) : q \in {r \in shorter : Len(r) = n - 1}, x \in S}

\* the mappings POST /exports accepts: non-empty, sources and targets set
Mappings ==
  SeqsUpTo({[source |-> s, target |-> t] : s \in Sources, t \in Targets}, MaxCols) \ {<<>>}

EncodeRecord ==
  /\ enc.pc = "ready"
  /\ enc' = [enc EXCEPT !.pc = "done",
                        !.fields = emitRecord(enc.fmt, enc.row, enc.columns)]
  /\ UNCHANGED <<jobs, post, table, envLimit, pool, dl>>

InitEnc ==
  /\ jobs = <<>>
  /\ post = NoPost
  /\ table = <<>>
  /\ envLimit = 0
  /\ pool = 0
  /\ dl = [d \in Dls |-> IdleDl]
  /\ enc \in [pc : {"ready"}, fmt : Formats, columns : Mappings, row : DbRows,
              fields : {<<>>}]

NextEnc == EncodeRecord

SpecEnc == InitEnc /\ [][NextEnc]_vars

(***************************************************************************)
(* SpecCsv: the csv text of a header and one projected row, character by   *)
(* character, and its reading back by the quoting rules of escapeCsvValue. *)
(* A text is a sequence of one-character strings.  A value of a row is a   *)
(* text, null, a Date (with its toISOString text), an object (a sequence   *)
(* of <<key, value>> pairs) or an array.                                   *)
(***************************************************************************)
CsvChars == {"a", ",", "\"", "\n"}

TextV(t) == [kind |-> "text", text |-> t]
NullV == [kind |-> "null"]
DateV(iso) == [kind |-> "date", iso |-> iso]
ObjV(entries) == [kind |-> "object", entries |-> entries]
ArrV(items) == [kind |-> "array", items |-> items]

Texts(n) == SeqsUpTo(CsvChars, n)

\* String.prototype.includes for one character
includes(value, c) == \E i \in 1..Len(value) : value[i] = c

\* value.replace(/"/g, '""')
RECURSIVE doubleQuotes(_)
doubleQuotes(value) ==
  IF value = <<>> THEN <<>>
  ELSE (IF Head(value) = "\"" THEN <<"\"", "\"">> ELSE <<Head(value)>>)
         \o doubleQuotes(Tail(value))

\* the characters of a JSON string literal: '"', '\' and the newline are
\* written with a backslash
RECURSIVE jsonEscape(_)
jsonEscape(t) ==
  IF t = <<>> THEN <<>>
  ELSE (IF Head(t) = "\"" THEN <<"\\", "\"">>
        ELSE IF Head(t) = "\\" THEN <<"\\", "\\">>
        ELSE IF Head(t) = "\n" THEN <<"\\", "n">>
        ELSE <<Head(t)>>) \o jsonEscape(Tail(t))

jsonString(t) == <<"\"">> \o jsonEscape(t) \o <<"\"">>

\* JSON.stringify(value): a Date is written by its toJSON, the quoted
\* toISOString text
RECURSIVE jsonStringify(_)
jsonStringify(value) ==
  LET RECURSIVE members(_)
      members(entries) ==
        IF entries = <<>> THEN <<>>
        ELSE (jsonString(Head(entries)[1]) \o <<":">> \o jsonStringify(Head(entries)[2]))
               \o (IF Len(entries) > 1 THEN <<",">> ELSE <<>>) \o members(Tail(entries))
      RECURSIVE elements(_)
      elements(items) ==
        IF items = <<>> THEN <<>>
        ELSE jsonStringify(Head(items))
               \o (IF Len(items) > 1 THEN <<",">> ELSE <<>>) \o elements(Tail(items))
  IN CASE value.kind = "null" -> <<"n", "u", "l", "l">>
       [] value.kind = "text" -> jsonString(value.text)
       [] value.kind = "date" -> jsonString(value.iso)
       [] value.kind = "array" -> <<"[">> \o elements(value.items) \o <<"]">>
       [] value.kind = "object" -> <<"{">> \o members(value.entries) \o <<"}">>

\* typeof value === 'object' of a value that is not null
typeofObject(value) == value.kind \in {"object", "array", "date"}

\* null gives '', an object JSON.stringify(value), a text String(value)
flattenJsonValue(value) ==
  IF value.kind = "null" THEN <<>>
  ELSE IF typeofObject(value) THEN jsonStringify(value)
  ELSE value.text

escapeCsvValue(value) ==
  IF includes(value, ",") \/ includes(value, "\"") \/ includes(value, "\n")
    THEN <<"\"">> \o doubleQuotes(value) \o <<"\"">>
    ELSE value

\* Array.prototype.join(',')
RECURSIVE joinComma(_)
joinComma(fields) ==
  IF fields = <<>> THEN <<>>
  ELSE IF Len(fields) = 1 THEN fields[1]
  ELSE fields[1] \o <<",">> \o joinComma(Tail(fields))

\* headerRow + '\n': the target names as they are
csvHeader(targets) == joinComma(targets) \o <<"\n">>

\* csvRow + '\n'
csvRow(values) ==
  joinComma([i \in 1..Len(values) |-> escapeCsvValue(flattenJsonValue(values[i]))])
    \o <<"\n">>

RECURSIVE csvRows(_)
csvRows(rows) ==
  IF rows = <<>> THEN <<>> ELSE csvRow(Head(rows)) \o csvRows(Tail(rows))

csvText(targets, rows) == csvHeader(targets) \o csvRows(rows)

\* reading csv text back: a field that starts with '"' runs to the closing
\* '"', with '""' standing for one '"'; other fields end at ',' or '\n'
RECURSIVE parseCsv(_, _, _, _, _, _)
parseCsv(text, i, inQuotes, field, record, records) ==
  IF i > Len(text)
    THEN IF field = <<>> /\ record = <<>> /\ ~inQuotes
           THEN records
           ELSE Append(records, Append(record, field))
  ELSE LET c == text[i] IN
    IF inQuotes
      THEN IF c = "\"" /\ i < Len(text) /\ text[i + 1] = "\""
             THEN parseCsv(text, i + 2, TRUE, Append(field, "\""), record, records)
           ELSE IF c = "\""
             THEN parseCsv(text, i + 1, FALSE, field, record, records)
           ELSE parseCsv(text, i + 1, TRUE, Append(field, c), record, records)
    ELSE IF c = "\"" /\ field = <<>>
      THEN parseCsv(text, i + 1, TRUE, field, record, records)
    ELSE IF c = ","
      THEN parseCsv(text, i + 1, FALSE, <<>>, Append(record, field), records)
    ELSE IF c = "\n"
      THEN parseCsv(text, i + 1, FALSE, <<>>, <<>>, Append(records, Append(record, field)))
    ELSE parseCsv(text, i + 1, FALSE, Append(field, c), record, records)

\* the mappings and projected rows of the round trip: 1..MaxCsvCols columns,
\* non-empty target names, no row or one row
CsvInputs ==
  UNION {[targets : [1..n -> Texts(MaxText) \ {<<>>}],
          rows : {<<>>} \cup {<<r>> : r \in [1..n -> {TextV(t) : t \in Texts(MaxText)}]}] :
           n \in 1..MaxCsvCols}

EncodeCsv ==
  /\ enc.pc = "csv"
  /\ LET text == csvText(enc.targets, enc.rows) IN
       enc' = [enc EXCEPT !.pc = "parsed", !.text = text,
                          !.parsed = parseCsv(text, 1, FALSE, <<>>, <<>>, <<>>)]
  /\ UNCHANGED <<jobs, post, table, envLimit, pool, dl>>

InitCsv ==
  /\ jobs = <<>>
  /\ post = NoPost
  /\ table = <<>>
  /\ envLimit = 0
  /\ pool = 0
  /\ dl = [d \in Dls |-> IdleDl]
  /\ \E input \in CsvInputs :
       enc = [pc |-> "csv", targets |-> input.targets, rows |-> input.rows,
              text |-> <<>>, parsed |-> <<>>]

NextCsv == EncodeCsv

SpecCsv == InitCsv /\ [][NextCsv]_vars

(***************************************************************************)
(* SpecTag: sanitizeXmlTag applied to short strings over a letter, a       *)
(* digit, '-', '_' and a character outside [a-zA-Z0-9_-].                  *)
(***************************************************************************)
TagChars == {"a", "1", "-", "_", " "}

SanitizeTag ==
  /\ enc.pc = "tag"
  /\ enc' = [enc EXCEPT !.pc = "tagged", !.name = sanitizeXmlTag(enc.tag)]
  /\ UNCHANGED <<jobs, post, table, envLimit, pool, dl>>

InitTag ==
  /\ jobs = <<>>
  /\ post = NoPost
  /\ table = <<>>
  /\ envLimit = 0
  /\ pool = 0
  /\ dl = [d \in Dls |-> IdleDl]
  /\ \E tag \in SeqsUpTo(TagChars, MaxTag) : enc = [pc |-> "tag", tag |-> tag, name |-> <<>>]

NextTag == SanitizeTag

SpecTag == InitTag /\ [][NextTag]_vars

(***************************************************************************)
(* SpecXml: the xml document of one record with one field, as the sequence *)
(* of its start tags, end tags and text contents.  A value is a text, null,*)
(* an object or an array; names and texts are sequences of characters.     *)
(***************************************************************************)
XmlChars == {"a", "&", "<", ">", "\"", "'"}

\* value.replace(/c/g, by)
RECURSIVE replaceAll(_, _, _)
replaceAll(value, c, by) ==
  IF value = <<>> THEN <<>>
  ELSE (IF Head(value) = c THEN by ELSE <<Head(value)>>) \o replaceAll(Tail(value), c, by)

\* the named entities, in the order sanitizeXmlValue applies them
Entities ==
  << <<"&", <<"&", "a", "m", "p", ";">> >>,
     <<"<", <<"&", "l", "t", ";">> >>,
     <<">", <<"&", "g", "t", ";">> >>,
     <<"\"", <<"&", "q", "u", "o", "t", ";">> >>,
     <<"'", <<"&", "a", "p", "o", "s", ";">> >> >>

RECURSIVE replaceEntities(_, _)
replaceEntities(value, k) ==
  IF k > Len(Entities) THEN value
  ELSE replaceEntities(replaceAll(value, Entities[k][1], Entities[k][2]), k + 1)

sanitizeXmlValue(value) == replaceEntities(value, 1)

\* null and undefined give '', anything else String(value)
formatXmlValue(value) == IF value.kind = "null" THEN <<>> ELSE value.text

\* typeof value === 'object' && value !== null
isObject(value) == value.kind # "null" /\ typeofObject(value)

OpenTag(name) == [t |-> "open", s |-> name]
CloseTag(name) == [t |-> "close", s |-> name]
TextNode(chars) == [t |-> "text", s |-> chars]
XmlDecl == [t |-> "decl", s |-> <<>>]

RecordsName == <<"r", "e", "c", "o", "r", "d", "s">>
RecordName == <<"r", "e", "c", "o", "r", "d">>

\* `item_${index}`
itemKey(index) == <<"i", "t", "e", "m", "_">> \o <<(<<"0", "1", "2">>)[index + 1]>>

\* the <<key, value>> pairs writeXmlObject walks over
\* Object.entries of a Date is empty: a Date has no own enumerable property
entriesOf(obj) ==
  IF obj.kind = "array"
    THEN [i \in 1..Len(obj.items) |-> <<itemKey(i - 1), obj.items[i]>>]
  ELSE IF obj.kind = "date" THEN <<>>
  ELSE obj.entries

\* the writes for a list of <<key, value>> pairs: the field loop of
\* createXmlStream and the loops of writeXmlObject have the same body
RECURSIVE writeXmlEntries(_)
writeXmlEntries(entries) ==
  IF entries = <<>> THEN <<>>
  ELSE LET value == Head(entries)[2]
           tag == sanitizeXmlTag(Head(entries)[1])
       IN (IF isObject(value)
             THEN <<OpenTag(tag)>> \o writeXmlEntries(entriesOf(value)) \o <<CloseTag(tag)>>
             ELSE <<OpenTag(tag), TextNode(sanitizeXmlValue(formatXmlValue(value))),
                    CloseTag(tag)>>)
            \o writeXmlEntries(Tail(entries))

writeXmlObject(obj) == writeXmlEntries(entriesOf(obj))

RECURSIVE xmlRecords(_)
xmlRecords(rows) ==
  IF rows = <<>> THEN <<>>
  ELSE <<OpenTag(RecordName)>> \o writeXmlEntries(Head(rows)) \o <<CloseTag(RecordName)>>
         \o xmlRecords(Tail(rows))

xmlDocument(rows) ==
  <<XmlDecl, OpenTag(RecordsName)>> \o xmlRecords(rows) \o <<CloseTag(RecordsName)>>

\* the values of a field: texts, null, objects of one entry, arrays
XmlScalars == {TextV(t) : t \in SeqsUpTo(XmlChars, MaxXmlText - 1)} \cup {NullV}

XmlValues ==
  {TextV(t) : t \in SeqsUpTo(XmlChars, MaxXmlText)}
    \cup XmlScalars
    \cup {ObjV(<<(<<k, v>>)>>) : k \in SeqsUpTo(TagChars, MaxXmlText - 1), v \in XmlScalars}
    \cup {ArrV(items) : items \in SeqsUpTo(XmlScalars, MaxXmlText)}

\* target names are not empty
XmlKeys == SeqsUpTo(TagChars, MaxXmlText) \ {<<>>}

EncodeXml ==
  /\ enc.pc = "xml"
  /\ enc' = [enc EXCEPT !.pc = "written", !.doc = xmlDocument(enc.rows)]
  /\ UNCHANGED <<jobs, post, table, envLimit, pool, dl>>

InitXml ==
  /\ jobs = <<>>
  /\ post = NoPost
  /\ table = <<>>
  /\ envLimit = 0
  /\ pool = 0
  /\ dl = [d \in Dls |-> IdleDl]
  /\ \E k \in XmlKeys, v \in XmlValues :
       enc = [pc |-> "xml", rows |-> <<(<<(<<k, v>>)>>)>>, doc |-> <<>>]

NextXml == EncodeXml

SpecXml == InitXml /\ [][NextXml]_vars

(***************************************************************************)
(* SpecField: one field of one row, a text, null, a Date, an object or an  *)
(* array, written as the csv line of createCsvStream and as the element of *)
(* the field loop of createXmlStream.                                      *)
(***************************************************************************)
\* Date.prototype.toISOString of two timestamps
IsoTexts ==
  {<<"2", "0", "2", "4", "-", "0", "1", "-", "0", "2", "T",
     "0", "3", ":", "0", "4", ":", "0", "5", ".", "0", "0", "0", "Z">>,
   <<"1", "9", "9", "9", "-", "1", "2", "-", "3", "1", "T",
     "2", "3", ":", "5", "9", ":", "5", "9", ".", "9", "9", "9", "Z">>}

\* what a column of a row holds: the values of SpecXml and the Dates the
\* driver builds for timestamp columns
FieldValues == XmlValues \cup {DateV(iso) : iso \in IsoTexts}

EncodeField ==
  /\ enc.pc = "field"
  /\ enc' = [enc EXCEPT !.pc = "encoded",
                        !.csv = csvRow(<<enc.value>>),
                        !.xml = writeXmlEntries(<<(<<enc.key, enc.value>>)>>)]
  /\ UNCHANGED <<jobs, post, table, envLimit, pool, dl>>

InitField ==
  /\ jobs = <<>>
  /\ post = NoPost
  /\ table = <<>>
  /\ envLimit = 0
  /\ pool = 0
  /\ dl = [d \in Dls |-> IdleDl]
  /\ \E k \in XmlKeys, v \in FieldValues :
       enc = [pc |-> "field", key |-> k, value |-> v, csv |-> <<>>, xml |-> <<>>]

NextField == EncodeField

SpecField == InitField /\ [][NextField]_vars

(***************************************************************************)
(* SpecTwo: two downloads of one text-format job, one after the other or   *)
(* overlapping in any way, over tables of up to MaxRowsTwo rows.  Either   *)
(* download may lose its client or see its FETCH rejected.                 *)
(***************************************************************************)
TwoRequests == {Request(f, Undefined) : f \in {"csv", "json", "xml"}}

TwoStep(d) ==
  \/ ConnectOk(d)
  \/ BeginOk(d)
  \/ DeclareOk(d)
  \/ FetchOk(d)
  \/ FetchFail(d)
  \/ CloseOk(d)
  \/ CommitOk(d)
  \/ Pipe(d)
  \/ Flush(d)
  \/ Disconnect(d)

InitTwo == InitWith(TablesUpTo(MaxRowsTwo), 0..1)

NextTwo ==
  \/ \E req \in TwoRequests : PostExport(req, 1)
  \/ \E d \in 1..2 : Download(d, 1)
  \/ \E d \in 1..2 : TwoStep(d)

SpecTwo == InitTwo /\ [][NextTwo]_vars

(***************************************************************************)
(* SpecYield: the loop of an encoder over the batches of its cursor, row   *)
(* by row, for every batch size up to MaxBatchY, with the points at which  *)
(* its async body is suspended: the await of a FETCH, of writeBatch and of *)
(* setImmediate.  YieldRows stands for the 10 000 rows of the text         *)
(* encoders, ParquetEvery for the 100 000 rows of the parquet encoder.     *)
(* enc.ran counts the rows handled since the body was last suspended.      *)
(***************************************************************************)
\* an encoder that never awaits setImmediate
yieldNever(rowCount) == FALSE

\* `rowCount % 10000 === 0`
yieldDue(rowCount) == rowCount % YieldRows = 0

\* `rowCount % 100000 === 0`
parquetYieldDue(rowCount) == rowCount % ParquetEvery = 0

\* `batches.length >= 100000`
parquetFlushDue(held) == held >= ParquetEvery

\* `await client.query(FETCH ...)`: the body is suspended until the batch
\* is there; an empty batch ends the loop, and the parquet encoder then
\* awaits writeBatch for the rows it still holds
YieldFetch ==
  /\ enc.pc = "fetch"
  /\ LET rows == fetchRows(envLimit, enc.pos, enc.batchSize) IN
       enc' = IF loopEnds(rows, enc.batchSize)
                THEN [enc EXCEPT !.pc = "done", !.ran = 0, !.held = 0]
                ELSE [enc EXCEPT !.pc = IF enc.kind = "text" THEN "rows" ELSE "batch",
                                 !.pos = @ + Len(rows), !.pending = Len(rows), !.ran = 0]
  /\ UNCHANGED <<jobs, post, table, envLimit, pool, dl>>

\* a text encoder writes one row of the batch and awaits setImmediate when
\* the row count asks for it
YieldRow ==
  /\ enc.pc = "rows"
  /\ enc' = [enc EXCEPT !.rowCount = @ + 1,
                        !.pending = @ - 1,
                        !.peak = Max(@, enc.ran + 1),
                        !.ran = IF yieldDue(enc.rowCount + 1) THEN 0 ELSE @ + 1,
                        !.pc = IF enc.pending = 1 THEN "fetch" ELSE "rows"]
  /\ UNCHANGED <<jobs, post, table, envLimit, pool, dl>>

\* the parquet encoder takes the whole batch in one go, awaits writeBatch
\* when it holds enough rows and setImmediate when the row count asks for it
YieldBatch ==
  /\ enc.pc = "batch"
  /\ LET held == enc.held + enc.pending
         rowCount == enc.rowCount + enc.pending
     IN enc' = [enc EXCEPT !.rowCount = rowCount,
                           !.pending = 0,
                           !.peak = Max(@, enc.ran + enc.pending),
                           !.held = IF parquetFlushDue(held) THEN 0 ELSE held,
                           !.ran = IF parquetFlushDue(held) \/ parquetYieldDue(rowCount)
                                     THEN 0 ELSE @ + enc.pending,
                           !.pc = "fetch"]
  /\ UNCHANGED <<jobs, post, table, envLimit, pool, dl>>

InitYield ==
  /\ jobs = <<>>
  /\ post = NoPost
  /\ table \in TablesUpTo(MaxRowsY)
  /\ envLimit \in 0..MaxLimit
  /\ pool = 0
  /\ dl = [d \in Dls |-> IdleDl]
  /\ \E kind \in {"text", "parquet"}, b \in 1..MaxBatchY :
       enc = [pc |-> "fetch", kind |-> kind, batchSize |-> b, pos |-> 0, pending |-> 0,
              rowCount |-> 0, held |-> 0, ran |-> 0, peak |-> 0]

NextYield ==
  \/ YieldFetch
  \/ YieldRow
  \/ YieldBatch

SpecYield == InitYield /\ [][NextYield]_vars

(***************************************************************************)
(* SpecReg: the registry under requests that overlap in any way.  The      *)
(* methods of ExportJobStore are synchronous, so each call runs to its end *)
(* before another handler runs; enc.log lists the calls in the order they  *)
(* ran.  The calls are those of the routes: createJob of a POST, and       *)
(* updateJobStatus to in_progress, completed and failed (with the error's  *)
(* message, which may be empty) of the downloads, for identifiers the      *)
(* registry holds or not.                                                  *)
(***************************************************************************)
RegRequests == {Request("csv", Undefined), Request("json", "gzip")}

\* the arguments the download route passes to updateJobStatus
RegUpdates ==
  {<<"in_progress", Undefined>>, <<"completed", Undefined>>,
   <<"failed", "boom">>, <<"failed", "">>}

\* jobStore.createJob(...) of router.post('/')
RegCreate(req) ==
  /\ enc.pc = "reg" /\ Len(enc.log) < MaxOps
  /\ Cardinality(DOMAIN jobs) < MaxJobs
  /\ LET id == uuidv4(jobs) IN
       /\ jobs' = createJob(jobs, id, req)
       /\ enc' = [enc EXCEPT !.log = Append(@, [op |-> "create", id |-> id, req |-> req,
                                                 status |-> "pending", error |-> Undefined])]
  /\ UNCHANGED <<post, table, envLimit, pool, dl>>

\* jobStore.updateJobStatus(...) of a download
RegUpdate(id, status, error) ==
  /\ enc.pc = "reg" /\ Len(enc.log) < MaxOps
  /\ jobs' = updateJobStatus(jobs, id, status, error)
  /\ enc' = [enc EXCEPT !.log = Append(@, [op |-> "update", id |-> id, req |-> NoReq,
                                            status |-> status, error |-> error])]
  /\ UNCHANGED <<post, table, envLimit, pool, dl>>

InitReg ==
  /\ jobs = <<>>
  /\ post = NoPost
  /\ table = <<>>
  /\ envLimit = 0
  /\ pool = 0
  /\ dl = [d \in Dls |-> IdleDl]
  /\ enc = [pc |-> "reg", log |-> <<>>]

NextReg ==
  \/ \E req \in RegRequests : RegCreate(req)
  \/ \E id \in 1..(MaxJobs + 1), u \in RegUpdates : RegUpdate(id, u[1], u[2])

SpecReg == InitReg /\ [][NextReg]_vars

(***************************************************************************)
(* SpecShut: one download and one SIGINT or SIGTERM.  enc.pc is the state  *)
(* of the process: up, ending (the handler waits for pool.end()), exited.  *)
(* enc.inflight holds the downloads that were streaming when the signal    *)
(* came.  pool.end() closes idle clients at once and resolves when the     *)
(* last client that is checked out, or was asked for before the call, has  *)
(* been released; a pool.connect() called after it rejects.                *)
(***************************************************************************)
ShutRequests == {Request("csv", Undefined), Request("parquet", Undefined)}

\* process.on('SIGTERM' | 'SIGINT'): the handler calls pool.end() and waits
onSignal ==
  /\ enc.pc = "up"
  /\ enc' = [pc |-> "ending", inflight |-> {d \in Dls : dl[d].rt = "streaming"}]
  /\ UNCHANGED <<jobs, post, table, envLimit, pool, dl>>

\* `await pool.end()` resolved, then process.exit(0)
processExit ==
  /\ enc.pc = "ending"
  /\ pool = 0
  /\ \A d \in enc.inflight : dl[d].enc # "connect"
  /\ enc' = [enc EXCEPT !.pc = "exited"]
  /\ UNCHANGED <<jobs, post, table, envLimit, pool, dl>>

\* the process has not exited
alive == enc.pc # "exited"

\* pool.connect() was called before pool.end()
mayConnect(d) == enc.pc = "up" \/ (enc.pc = "ending" /\ d \in enc.inflight)

InitShut ==
  /\ jobs = <<>>
  /\ post = NoPost
  /\ table \in TablesUpTo(MaxRows)
  /\ envLimit = 0
  /\ pool = 0
  /\ dl = [d \in Dls |-> IdleDl]
  /\ enc = [pc |-> "up", inflight |-> {}]

NextShut ==
  \/ enc.pc = "up" /\ \E req \in ShutRequests : PostExport(req, MaxJobsOne)
  \/ alive /\ Download(1, 1)
  \/ mayConnect(1) /\ ConnectOk(1)
  \/ alive /\ ConnectFail(1)
  \/ alive /\ BeginOk(1)
  \/ alive /\ BeginFail(1)
  \/ alive /\ DeclareOk(1)
  \/ alive /\ DeclareFail(1)
  \/ alive /\ FetchOk(1)
  \/ alive /\ FetchFail(1)
  \/ alive /\ CloseOk(1)
  \/ alive /\ CloseFail(1)
  \/ alive /\ CommitOk(1)
  \/ alive /\ CommitFail(1)
  \/ alive /\ Pipe(1)
  \/ alive /\ Flush(1)
  \/ alive /\ Disconnect(1)
  \/ alive /\ WriteOk(1)
  \/ alive /\ WriteFailInLoop(1)
  \/ alive /\ WriteFailFinal(1)
  \/ alive /\ FileChunk(1)
  \/ alive /\ FileEnd(1)
  \/ alive /\ FileError(1)
  \/ onSignal
  \/ processExit

SpecShut == InitShut /\ [][NextShut]_vars

(***************************************************************************)
(* SpecBench: one GET /exports/benchmark.  The four runs of benchmarkFormat *)
(* are kept in enc.runs; rows are counted, not listed.  An export is the   *)
(* encoder of its format fed by queryStream; its database calls are        *)
(* gathered into a FETCH that resolves and a call that rejects.            *)
(***************************************************************************)
BenchFormats == <<"csv", "json", "xml", "parquet">>

\* process.env.BENCHMARK_ROW_LIMIT: <<>> when unset, <<n>> when set
BenchEnvs == {<<>>} \cup {<<n>> : n \in -1..MaxLimit}

\* Math.max(0, Math.floor(Number(process.env.BENCHMARK_ROW_LIMIT || 0)))
benchmarkRowLimit(b) == Max(0, IF b = <<>> THEN 0 ELSE b[1])

\* rowLimit: benchmarkRowLimit > 0 ? benchmarkRowLimit : undefined
rowLimitOption(b) ==
  IF benchmarkRowLimit(b) > 0 THEN <<benchmarkRowLimit(b)>> ELSE <<>>

\* Math.max(0, Math.floor(Number(options.rowLimit ?? process.env.EXPORT_ROW_LIMIT ?? 0)))
rowLimitWith(option, env) == Max(0, IF option # <<>> THEN option[1] ELSE env)

NoRun ==
  [st |-> "none",      \* the promise of benchmarkFormat: none, pending, resolved, rejected
   bdir |-> "none",    \* the bench_ temp directory: none, exists, removed
   exp |-> "none",     \* the export: none, running, reading, ended, destroyed
   pos |-> 0,          \* rows the cursor has returned
   out |-> 0,          \* rows written to the export stream
   piped |-> FALSE,    \* the export stream is piped to the file stream
   fs |-> "none",      \* the file stream: none, open, finished, errored
   file |-> 0,         \* rows written to the benchmark file
   pdir |-> "none"]    \* parquet: the parquet_ temp directory

\* the export of run k is at work: it holds or will ask for a connection, or
\* reads its temp file back
inFlight(r) == r.exp \in {"running", "reading"}

\* `results.length === 0` -> 500, else res.json(response)
benchAnswer(e) ==
  [e EXCEPT !.pc = "answered", !.status = IF Len(e.results) = 0 THEN 500 ELSE 200]

\* the promise of run k settles; when the loop awaits it, the loop pushes the
\* result or logs the error and goes on to the next format or to the answer
benchSettle(e, k, r, ok) ==
  LET e1 == [e EXCEPT !.runs[k] = [r EXCEPT !.st = IF ok THEN "resolved" ELSE "rejected"],
                      !.results = IF ok THEN Append(@, BenchFormats[k]) ELSE @]
  IN IF k < Len(BenchFormats)
       THEN [e1 EXCEPT !.pc = "sleep", !.i = k + 1]
       ELSE benchAnswer(e1)

\* getTableRowCount, the empty-table answer and the outer catch
BenchCount ==
  /\ enc.pc = "count"
  /\ \E ok \in BOOLEAN :
       enc' = IF ~ok \/ Len(table) = 0
                THEN [enc EXCEPT !.pc = "answered", !.status = 500]
                ELSE [enc EXCEPT !.pc = "sleep", !.i = 1, !.n = Len(table)]
  /\ UNCHANGED <<jobs, post, table, envLimit, pool, dl>>

\* the timeout passed: benchmarkFormat up to stream.pipe(fileStream), or up
\* to the throw of fs.mkdirSync (no directory) or of createExportStream
\* (parquet's own mkdirSync; the catch block removes the bench_ directory)
BenchStart ==
  /\ enc.pc = "sleep"
  /\ LET k == enc.i
         parquet == BenchFormats[k] = "parquet"
     IN \E outcome \in {"ok", "mkdir"} \cup (IF parquet THEN {"setup"} ELSE {}) :
          enc' = CASE outcome = "ok" ->
                        [enc EXCEPT !.pc = "await",
                                    !.runs[k] = [@ EXCEPT !.st = "pending", !.bdir = "exists",
                                                          !.exp = "running", !.piped = TRUE,
                                                          !.fs = "open",
                                                          !.pdir = IF parquet THEN "exists" ELSE @]]
                   [] outcome = "mkdir" -> benchSettle(enc, k, enc.runs[k], FALSE)
                   [] outcome = "setup" ->
                        benchSettle(enc, k, [enc.runs[k] EXCEPT !.bdir = "removed"], FALSE)
  /\ UNCHANGED <<jobs, post, table, envLimit, pool, dl>>

\* FETCH resolved for the export of run k: a text encoder writes the rows
\* to its stream, the parquet encoder keeps them for its temp file; the
\* empty batch ends the loop (text: passThrough.end(); parquet: the temp
\* file is read back)
BenchFetch(k) ==
  /\ enc.runs[k].exp = "running"
  /\ LET r == enc.runs[k]
         parquet == BenchFormats[k] = "parquet"
         limit == rowLimitWith(rowLimitOption(enc.benchEnv), envLimit)
         rows == fetchRows(limit, r.pos, batchSizeOf(BenchFormats[k]))
     IN enc' = [enc EXCEPT !.runs[k] =
                  IF loopEnds(rows, batchSizeOf(BenchFormats[k]))
                    THEN [r EXCEPT !.exp = IF parquet THEN "reading" ELSE "ended"]
                    ELSE [r EXCEPT !.pos = @ + Len(rows),
                                   !.out = IF parquet THEN @ ELSE @ + Len(rows)]]
  /\ UNCHANGED <<jobs, post, table, envLimit, pool, dl>>

\* parquet: fileStream.pipe(passThrough) hands the temp file over, as long
\* as the file stream of the benchmark takes it or the buffers of the
\* PassThrough hold it; fileStream 'end' removes the parquet_ directory
BenchReadBack(k) ==
  /\ enc.runs[k].exp = "reading"
  /\ enc.runs[k].piped \/ enc.runs[k].pos <= ResHWM
  /\ enc' = [enc EXCEPT !.runs[k] = [@ EXCEPT !.out = enc.runs[k].pos, !.exp = "ended",
                                              !.pdir = "removed"]]
  /\ UNCHANGED <<jobs, post, table, envLimit, pool, dl>>

\* a database call, writeBatch or the read of the temp file rejects: the
\* encoder destroys its stream (parquet removes its directory), 'error'
\* reaches `stream.on('error', reject)`
BenchStreamError(k) ==
  /\ inFlight(enc.runs[k])
  /\ LET r == [enc.runs[k] EXCEPT !.exp = "destroyed", !.piped = FALSE,
                                  !.pdir = IF @ = "exists" THEN "removed" ELSE @]
     IN enc' = IF enc.runs[k].st = "pending"
                 THEN benchSettle(enc, k, r, FALSE)
                 ELSE [enc EXCEPT !.runs[k] = r]
  /\ UNCHANGED <<jobs, post, table, envLimit, pool, dl>>

\* pipe(): the rows the export stream holds are written to the file
BenchPipe(k) ==
  /\ enc.runs[k].piped /\ enc.runs[k].fs = "open"
  /\ enc.runs[k].file < enc.runs[k].out
  /\ enc' = [enc EXCEPT !.runs[k].file = enc.runs[k].out]
  /\ UNCHANGED <<jobs, post, table, envLimit, pool, dl>>

\* the export stream ended and all of it is in the file: fileStream
\* 'finish' removes the bench_ directory and resolves with the result
BenchFileFinish(k) ==
  /\ enc.runs[k].piped /\ enc.runs[k].fs = "open"
  /\ enc.runs[k].exp = "ended" /\ enc.runs[k].file = enc.runs[k].out
  /\ enc' = benchSettle(enc, k, [enc.runs[k] EXCEPT !.fs = "finished", !.bdir = "removed"],
                        TRUE)
  /\ UNCHANGED <<jobs, post, table, envLimit, pool, dl>>

\* fileStream 'error': pipe() unpipes the export stream, which goes on
\* being written by its encoder; `fileStream.on('error', reject)`
BenchFileError(k) ==
  /\ enc.runs[k].fs = "open"
  /\ LET r == [enc.runs[k] EXCEPT !.fs = "errored", !.piped = FALSE]
     IN enc' = IF enc.runs[k].st = "pending"
                 THEN benchSettle(enc, k, r, FALSE)
                 ELSE [enc EXCEPT !.runs[k] = r]
  /\ UNCHANGED <<jobs, post, table, envLimit, pool, dl>>

InitBench ==
  /\ jobs = <<>>
  /\ post = NoPost
  /\ table \in TablesUpTo(MaxRowsBench)
  /\ envLimit \in 0..MaxLimit
  /\ pool = 0
  /\ dl = [d \in Dls |-> IdleDl]
  /\ \E b \in BenchEnvs :
       enc = [pc |-> "count", i |-> 0, n |-> 0, results |-> <<>>, status |-> 0,
              benchEnv |-> b, runs |-> [k \in 1..Len(BenchFormats) |-> NoRun]]

NextBench ==
  \/ BenchCount
  \/ BenchStart
  \/ \E k \in 1..Len(BenchFormats) :
       \/ BenchFetch(k)
       \/ BenchReadBack(k)
       \/ BenchStreamError(k)
       \/ BenchPipe(k)
       \/ BenchFileFinish(k)
       \/ BenchFileError(k)

SpecBench == InitBench /\ [][NextBench]_vars

(***************************************************************************)
(* The properties.                                                         *)
(***************************************************************************)

\* a request body that satisfies every rule of ExportRequest
RequestValid(req) ==
  /\ req.format \in Formats
  /\ req.columns.kind = "array" /\ Len(req.columns.items) > 0
  /\ \A i \in 1..Len(req.columns.items) :
       /\ req.columns.items[i].obj
       /\ Truthy(req.columns.items[i].source) /\ Truthy(req.columns.items[i].target)
  /\ req.compression \in {Undefined, "gzip"}

\* this step answers a POST /exports
PostStep == post' # post \/ DOMAIN jobs' # DOMAIN jobs

\* C12: a valid POST /exports is answered with 201 and stores one new job in
\* status pending under an identifier no earlier job has, also when the
\* request repeats an earlier one; the jobs already stored are left as they
\* were.
C12_FreshPendingJob ==
  [][(PostStep /\ RequestValid(post'.req))
       => /\ post'.status = 201
          /\ \E id \in DOMAIN jobs' \ DOMAIN jobs :
               /\ DOMAIN jobs' = DOMAIN jobs \cup {id}
               /\ jobs'[id].id = id /\ jobs'[id].status = "pending"
          /\ \A j \in DOMAIN jobs : jobs'[j] = jobs[j]]_vars

\* two jobs created from identical requests
C12_Witness ==
  /\ Cardinality(DOMAIN jobs) = 2 /\ post.status = 201
  /\ jobs[1].format = jobs[2].format /\ jobs[1].compression = jobs[2].compression
  /\ jobs[1].columns = jobs[2].columns /\ jobs[1].id # jobs[2].id

\* download d receives its request in this step
BeginsRequest(d) == dl[d].rt = "idle" /\ dl'[d].rt # "idle"

\* C13: a download request for an identifier that is not in the registry is
\* answered with 404 and does nothing else: the registry and the pool are
\* left as they were, and the request never holds a client or a cursor.
C13_UnknownIdIs404 ==
  [][\A d \in Dls :
       /\ (BeginsRequest(d) /\ dl'[d].job \notin DOMAIN jobs)
            => /\ dl'[d].rt = "notfound"
               /\ dl'[d].res.status = 404 /\ dl'[d].res.ended
               /\ jobs' = jobs /\ pool' = pool
       /\ dl'[d].rt = "notfound"
            => (dl'[d].conn = "none" /\ dl'[d].cursor = "none" /\ ~dl'[d].txn
                /\ dl'[d].enc = "none")]_vars

\* an unknown identifier was asked for while another job is stored
C13_Witness ==
  \E d \in Dls :
    /\ dl[d].rt = "notfound" /\ dl[d].res.status = 404
    /\ DOMAIN jobs # {} /\ dl[d].job \notin DOMAIN jobs

\* the media type the interface promises for a format
MediaTypeOf(fmt) ==
  [csv |-> "text/csv", json |-> "application/json", xml |-> "application/xml",
   parquet |-> "application/octet-stream"][fmt]

\* C14: every response to a download of an existing job carries the media
\* type of the job's format (text/csv, application/json, application/xml,
\* application/octet-stream) and carries Content-Encoding: gzip exactly when
\* the job's compression is gzip.
C14_HeadersFollowJob ==
  \A d \in Dls :
    (dl[d].rt \in {"streaming", "setupfailed"} /\ dl[d].res.headersSent)
      => /\ dl[d].res.contentType = MediaTypeOf(jobs[dl[d].job].format)
         /\ dl[d].res.gzipHeader <=> (jobs[dl[d].job].compression = "gzip")

\* a gzip xml download that has sent body chunks with status 200
C14_Witness ==
  \E d \in Dls :
    /\ dl[d].res.status = 200 /\ dl[d].piped > 0
    /\ jobs[dl[d].job].format = "xml" /\ jobs[dl[d].job].compression = "gzip"
    /\ dl[d].res.contentType = "application/xml" /\ dl[d].res.gzipHeader

\* C15: reading the csv output (header line included) back with the
\* encoder's own quoting rules gives the target names and the projected rows
\* that went in, whatever commas, double quotes and newlines they contain.
C15_CsvRoundTrip ==
  enc.pc = "parsed" =>
    enc.parsed = <<enc.targets>>
                   \o [r \in 1..Len(enc.rows) |->
                        [i \in 1..Len(enc.rows[r]) |-> enc.rows[r][i].text]]

\* the chunks of kind k among a sequence of chunks
RECURSIVE countToks(_, _)
countToks(toks, k) ==
  IF toks = <<>> THEN 0
  ELSE (IF Head(toks).k = k THEN 1 ELSE 0) + countToks(Tail(toks), k)

\* C16: in the json output no separator comma precedes the first object,
\* exactly one stands between two consecutive objects (n-1 for n >= 1
\* objects, whatever the batching) and none follows the last object.
C16_JsonSeparators ==
  \A d \in Dls :
    dl[d].fmt = "json" =>
      LET out == dl[d].out IN
        /\ \A i \in 1..Len(out) :
             /\ out[i].k = "sep"
                  => (i > 1 /\ i < Len(out)
                      /\ out[i - 1].k = "row" /\ out[i + 1].k = "row")
             /\ (out[i].k = "row" /\ i > 1) => out[i - 1].k \in {"hdr", "sep"}
             /\ (out[i].k = "row" /\ i > 1 /\ out[i - 1].k = "hdr")
                  => countToks(SubSeq(out, 1, i), "row") = 1
        /\ countToks(out, "sep") = Max(0, countToks(out, "row") - 1)

\* a json export of more rows than one batch, written to its closing bracket
C16_Witness ==
  \E d \in Dls :
    /\ dl[d].fmt = "json" /\ dl[d].enc = "ended"
    /\ countToks(dl[d].out, "row") > BatchText
    /\ countToks(dl[d].out, "sep") = countToks(dl[d].out, "row") - 1

\* the body the interface promises for an export of no rows (the header
\* line is that of the mapping id -> a)
EmptyBody(fmt) ==
  CASE fmt = "csv" -> "a\n"
    [] fmt = "json" -> "[\n\n]"
    [] OTHER -> "<?xml version=\"1.0\" encoding=\"UTF-8\"?>\n<records>\n</records>"

\* the failures the environment can cause: database and compressor
DbOrGzipFailures == {"connect", "begin", "declare", "fetch", "close", "commit", "gzip"}

\* C17: for an empty table a csv, json or xml export completes and its body
\* is exactly the header line (csv), '[\n\n]' (json), or the declaration,
\* <records> and </records> with no record (xml); the export fails only when
\* the database or the compressor fails.
C17_EmptyTableTextBody ==
  \A d \in Dls :
    (dl[d].rt = "streaming" /\ dl[d].fmt \in {"csv", "json", "xml"} /\ table = <<>>)
      => /\ dl[d].endEmitted
              => /\ bodyText(dl[d].fmt, jobs[dl[d].job].columns, dl[d].out)
                      = EmptyBody(dl[d].fmt)
                 /\ jobs[dl[d].job].status = "completed"
                 /\ dl[d].res.status = 200
         /\ dl[d].enc = "destroyed" => dl[d].failure \in DbOrGzipFailures

\* a json export of an empty table that ran to its end
C17_Witness ==
  \E d \in Dls :
    /\ dl[d].fmt = "json" /\ table = <<>> /\ dl[d].endEmitted
    /\ jobs[dl[d].job].status = "completed"
    /\ bodyText("json", jobs[dl[d].job].columns, dl[d].out) = "[\n\n]"

\* C18: a parquet export whose cursor returned no row ends its stream
\* normally and the job becomes completed; a stream error or a failed job
\* comes only from a failure of the database or the compressor.
C18_EmptyParquetCompletes ==
  \A d \in Dls :
    (dl[d].fmt = "parquet" /\ dl[d].fin = "exhausted" /\ dl[d].pos = 0
       /\ dl[d].conn = "released"
       /\ (dl[d].enc = "destroyed" \/ jobs[dl[d].job].status = "failed"))
      => dl[d].failure \in DbOrGzipFailures

\* an XML Name over the characters at hand: not empty, only characters of
\* [A-Za-z0-9_-], the first one a letter or '_'
IsXmlName(name) ==
  /\ name # <<>>
  /\ \A i \in 1..Len(name) : isTagChar(name[i])
  /\ name[1] \in Letters \cup {"_"}

\* C20: for every input string, the empty one and those beginning with '-'
\* included, sanitizeXmlTag returns a valid XML Name.
C20_TagIsXmlName ==
  enc.pc = "tagged" => IsXmlName(enc.name)

\* start tags, end tags and texts nest properly under exactly one root
RECURSIVE wellNested(_, _, _)
wellNested(toks, stack, roots) ==
  IF toks = <<>> THEN stack = <<>> /\ roots = 1
  ELSE LET tok == Head(toks) IN
    CASE tok.t = "open" ->
           /\ stack = <<>> => (roots = 0 /\ tok.s = RecordsName)
           /\ wellNested(Tail(toks), <<tok.s>> \o stack,
                         IF stack = <<>> THEN roots + 1 ELSE roots)
      [] tok.t = "close" ->
           /\ stack # <<>> /\ Head(stack) = tok.s
           /\ wellNested(Tail(toks), Tail(stack), roots)
      [] tok.t = "text" -> stack # <<>> /\ wellNested(Tail(toks), stack, roots)
      [] OTHER -> FALSE

isPrefix(p, chars) == Len(p) <= Len(chars) /\ SubSeq(chars, 1, Len(p)) = p

\* the text an XML reader gets from a text content; "RAW" marks a '&', '<',
\* '>', '"' or "'" that is not part of one of the five named entities
RECURSIVE decodeXml(_)
decodeXml(chars) ==
  IF chars = <<>> THEN <<>>
  ELSE IF \E k \in 1..Len(Entities) : isPrefix(Entities[k][2], chars)
    THEN LET k == CHOOSE k \in 1..Len(Entities) : isPrefix(Entities[k][2], chars) IN
           <<Entities[k][1]>> \o decodeXml(SubSeq(chars, Len(Entities[k][2]) + 1, Len(chars)))
  ELSE IF Head(chars) \in {"&", "<", ">", "\"", "'"}
    THEN <<"RAW">> \o decodeXml(Tail(chars))
  ELSE <<Head(chars)>> \o decodeXml(Tail(chars))

\* the scalar values of a list of <<key, value>> pairs, in document order
RECURSIVE leafTexts(_)
leafTexts(entries) ==
  IF entries = <<>> THEN <<>>
  ELSE (IF isObject(Head(entries)[2])
          THEN leafTexts(entriesOf(Head(entries)[2]))
          ELSE <<formatXmlValue(Head(entries)[2])>>)
         \o leafTexts(Tail(entries))

RECURSIVE leafTextsOfRows(_)
leafTextsOfRows(rows) ==
  IF rows = <<>> THEN <<>> ELSE leafTexts(Head(rows)) \o leafTextsOfRows(Tail(rows))

\* the decoded text contents of a document, in order
RECURSIVE decodedTexts(_)
decodedTexts(toks) ==
  IF toks = <<>> THEN <<>>
  ELSE (IF Head(toks).t = "text" THEN <<decodeXml(Head(toks).s)>> ELSE <<>>)
         \o decodedTexts(Tail(toks))

\* nesting and escaping alone, whatever the element names are
NestedAndEscaped(doc, rows) ==
  /\ doc[1] = XmlDecl
  /\ wellNested(Tail(doc), <<>>, 0)
  /\ decodedTexts(doc) = leafTextsOfRows(rows)

\* C19: the xml output is well-formed: after the declaration the elements,
\* each with an XML Name, are closed by matching end tags in nested order
\* under the single root <records>, and every text content has its '&', '<',
\* '>', '"' and "'" replaced by the named entity, once (reading the content
\* back gives the value that went in).
C19_XmlWellFormed ==
  enc.pc = "written"
    => /\ NestedAndEscaped(enc.doc, enc.rows)
       /\ \A i \in 1..Len(enc.doc) : enc.doc[i].t = "open" => IsXmlName(enc.doc[i].s)

\* C21: a timestamp value (not null) of a row is written as a scalar: the csv
\* field is its ISO-8601 text as it stands, and the xml element holds that
\* text as its content; only objects and arrays are written as nested
\* documents.
C21_TimestampIsScalar ==
  (enc.pc = "encoded" /\ enc.value.kind = "date")
    => /\ enc.csv = enc.value.iso \o <<"\n">>
       /\ enc.xml = <<OpenTag(sanitizeXmlTag(enc.key)), TextNode(enc.value.iso),
                      CloseTag(sanitizeXmlTag(enc.key))>>

\* C22: during a benchmark request at most one of its exports is at work at
\* any time: a format's export is over before the export of the next format
\* begins.
C22_OneExportInFlight ==
  enc.pc \in {"sleep", "await", "answered"}
    => Cardinality({k \in 1..Len(BenchFormats) : inFlight(enc.runs[k])}) <= 1

\* the benchmark answers with the formats whose run resolved, in the order
\* csv, json, xml, parquet
BenchResultsInOrder ==
  enc.pc = "answered" /\ enc.n > 0
    => enc.results = SelectSeq(BenchFormats,
                               LAMBDA f : \E k \in 1..Len(BenchFormats) :
                                            BenchFormats[k] = f /\ enc.runs[k].st = "resolved")

\* the bench_ directory of a run that no later step removes: 'finish' of its
\* file stream, the only remover left, cannot come any more
benchDirLeft(r) == r.bdir = "exists" /\ (r.fs = "errored" \/ r.exp = "destroyed")

\* C28: no temp directory of a benchmark run or of its parquet export is
\* left behind for good, whether the run completes, its export stream fails
\* or its file stream fails.
C28_TempDirsRemoved ==
  enc.pc \in {"sleep", "await", "answered"}
    => \A k \in 1..Len(BenchFormats) : ~benchDirLeft(enc.runs[k])

\* what is left stays: no step removes such a directory
BenchDirLeftForGood ==
  [][\A k \in 1..Len(BenchFormats) :
       (enc.pc # "count" /\ benchDirLeft(enc.runs[k])) => benchDirLeft(enc.runs[k])']_vars

\* C29: a benchmark run that succeeds has written min(N, BENCHMARK_ROW_LIMIT)
\* rows when BENCHMARK_ROW_LIMIT > 0 and all N rows of the table when it is 0
\* or unset, whatever EXPORT_ROW_LIMIT is.
C29_BenchmarkRowCount ==
  enc.pc \in {"sleep", "await", "answered"}
    => \A k \in 1..Len(BenchFormats) :
         enc.runs[k].st = "resolved"
           => enc.runs[k].file = IF benchmarkRowLimit(enc.benchEnv) > 0
                                   THEN Min(Len(table), benchmarkRowLimit(enc.benchEnv))
                                   ELSE Len(table)

\* the chunks a scan of the table writes for a job of format fmt
scanOutput(fmt) ==
  headerToks(fmt) \o rowToks(fmt, resultSet(envLimit), TRUE) \o footerToks(fmt)

emitted(d) == SubSeq(dl[d].out, 1, dl[d].piped)

\* C24: what a text-format export has sent is at every moment, and so when
\* it fails, a prefix of what the complete export of the same job and table
\* sends; the closing footer is sent only after the cursor was read to its
\* end and closed without an error.
C24_PartialOutputIsPrefix ==
  \A d \in Dls :
    dl[d].fmt \in {"csv", "json", "xml"}
      => /\ isPrefix(emitted(d), scanOutput(dl[d].fmt))
         /\ countToks(emitted(d), "ftr") > 0
              => /\ dl[d].fin = "exhausted"
                 /\ dl[d].pos = Len(resultSet(envLimit))
                 /\ dl[d].cursor = "closed"

\* a json or xml export whose FETCH was rejected after rows had been sent
C24_Witness ==
  \E d \in Dls :
    /\ dl[d].fmt \in {"json", "xml"}
    /\ dl[d].failure = "fetch" /\ dl[d].enc = "destroyed"
    /\ Len(rowsOf(emitted(d))) > 0
    /\ countToks(emitted(d), "ftr") = 0

\* C25: once the client of a download is gone, the cursor reader takes at
\* most the batch whose FETCH was under way and issues no FETCH after it.
C25_ReaderStopsAfterDisconnect ==
  [][\A d \in Dls :
       (dl[d].client = "gone" /\ dl'[d].pos > dl[d].pos) => dl'[d].enc # "fetch"]_vars

\* C26: in a text-format export the rows that were encoded and not yet
\* written to the response are never more than one batch, however slowly
\* the client reads.
C26_BufferWithinOneBatch ==
  \A d \in Dls :
    (dl[d].fmt \in {"csv", "json", "xml"} /\ dl[d].enc # "destroyed")
      => Len(rowsOf(dl[d].out)) - Len(rowsOf(emitted(d))) <= BatchText

\* C27: a parquet export holds at most one batch of rows in memory, and when
\* it asks for the next batch every row fetched so far has been written to
\* its output stream.
C27_OneRowGroupInMemory ==
  \A d \in Dls :
    (dl[d].fmt = "parquet" /\ dl[d].rt = "streaming")
      => /\ Len(dl[d].batches) <= BatchParquet
         /\ dl[d].enc = "fetch" => Len(rowsOf(dl[d].out)) = dl[d].pos

PastLoop(r) ==
  \/ r.enc \in {"ended", "writefinal", "filestream"}
  \/ countToks(r.out, "ftr") > 0

\* C31: when an encoder has left its loop normally (it writes its footer and
\* ends its stream after that), the cursor is closed, the transaction is
\* over and the connection is back in the pool: no stream has ended with
\* its connection still held.
C31_ReleasedBeforeEnd ==
  \A d \in Dls :
    PastLoop(dl[d])
      => /\ dl[d].cursor = "closed"
         /\ ~dl[d].txn
         /\ dl[d].conn = "released" /\ dl[d].releases = 1

\* an xml export of one row or more has written </records> and ended
C31_Witness ==
  \E d \in Dls :
    /\ dl[d].fmt = "xml" /\ dl[d].enc = "ended"
    /\ dl[d].pos > 0 /\ countToks(dl[d].out, "ftr") = 1

\* the calls of the log that name job id, from its creation on
callsOn(log, id) ==
  LET born == CHOOSE i \in 1..Len(log) : log[i].op = "create" /\ log[i].id = id
  IN SelectSeq(SubSeq(log, born, Len(log)), LAMBDA c : c.id = id)

\* the job that the calls on it, one after the other, leave behind: the
\* fields of the request, the status of the last call, the last non-empty
\* error message, and a completion time once a call said completed or failed
serialJob(log, id) ==
  LET calls == callsOn(log, id)
      updates == SelectSeq(calls, LAMBDA c : c.op = "update")
      errors == SelectSeq(updates, LAMBDA c : Truthy(c.error))
  IN [id |-> id,
      format |-> calls[1].req.format,
      columns |-> calls[1].req.columns.items,
      compression |-> calls[1].req.compression,
      status |-> calls[Len(calls)].status,
      createdAt |-> Len(SelectSeq(SubSeq(log, 1, CHOOSE i \in 1..Len(log) :
                                                   log[i].op = "create" /\ log[i].id = id),
                                  LAMBDA c : c.op = "create")),
      completedAt |-> \E i \in 1..Len(updates) : updates[i].status \in {"completed", "failed"},
      error |-> IF errors = <<>> THEN Undefined ELSE errors[Len(errors)].error]

\* C32: whatever way creates and status updates of overlapping requests
\* follow one another, the registry is what the calls leave when applied one
\* by one in the order they ran: n creates give n different jobs that can be
\* looked up, and every update shows on the job it names and on no other.
C32_RegistrySerializable ==
  enc.pc = "reg"
    => LET created == {enc.log[i].id : i \in {k \in 1..Len(enc.log) : enc.log[k].op = "create"}}
       IN /\ DOMAIN jobs = created
          /\ Cardinality(created)
               = Len(SelectSeq(enc.log, LAMBDA c : c.op = "create"))
          /\ \A id \in created : jobs[id] = serialJob(enc.log, id)

\* two jobs, the first set to in_progress, the second left pending, and an
\* update that named no job
C32_Witness ==
  /\ enc.pc = "reg" /\ Len(enc.log) = MaxOps
  /\ Cardinality(DOMAIN jobs) = 2
  /\ jobs[1].status = "in_progress" /\ jobs[2].status = "pending"
  /\ \E i \in 1..Len(enc.log) : enc.log[i].op = "update" /\ enc.log[i].id \notin DOMAIN jobs

\* the fields of a job that are set at its creation
sameDescriptor(a, b) ==
  /\ a.id = b.id /\ a.format = b.format /\ a.columns = b.columns
  /\ a.compression = b.compression /\ a.createdAt = b.createdAt

\* C39: a call on the registry changes its target only: an update that names
\* no stored job changes nothing, an update of a stored job and a create
\* leave every other job as it was, and no call removes a job or changes the
\* id, format, columns, compression or createdAt of one.
C39_RegistryFrame ==
  [][(enc.pc = "reg" /\ Len(enc'.log) > Len(enc.log))
       => LET call == enc'.log[Len(enc'.log)] IN
            /\ DOMAIN jobs \subseteq DOMAIN jobs'
            /\ \A j \in DOMAIN jobs : sameDescriptor(jobs'[j], jobs[j])
            /\ \A j \in DOMAIN jobs \ {call.id} : jobs'[j] = jobs[j]
            /\ (call.op = "update" /\ call.id \notin DOMAIN jobs) => jobs' = jobs
            /\ call.op = "update" => DOMAIN jobs' = DOMAIN jobs]_vars

\* the second of two jobs failed, the first is untouched, and an update
\* named an identifier the registry does not hold
C39_Witness ==
  /\ enc.pc = "reg"
  /\ Cardinality(DOMAIN jobs) = 2
  /\ jobs[1].status = "pending" /\ jobs[2].status = "failed" /\ jobs[2].error = "boom"
  /\ \E i \in 1..Len(enc.log) : enc.log[i].op = "update" /\ enc.log[i].id \notin DOMAIN jobs

\* C35: every stored job has an error message only in status failed and a
\* completion time only in status completed or failed, also after a job
\* that failed or completed is downloaded again.
C35_DescriptorConsistent ==
  \A id \in DOMAIN jobs :
    /\ Truthy(jobs[id].error) => jobs[id].status = "failed"
    /\ jobs[id].completedAt => jobs[id].status \in {"completed", "failed"}

\* C36: the response of a download gets its status once and one body end:
\* no step writes a second JSON error body, changes a status that was sent,
\* or changes a response that has ended, also when one stream error reaches
\* both error handlers.
C36_AnsweredOnce ==
  [][\A d \in Dls :
       /\ dl'[d].res.errBody <= 1
       /\ dl[d].res.status # 0 => dl'[d].res.status = dl[d].res.status
       /\ dl[d].res.ended => dl'[d].res = dl[d].res]_vars

\* a download without gzip whose stream failed before a byte was sent: both
\* handlers ran and the response holds one 500 body
C36_Witness ==
  \E d \in Dls :
    /\ dl[d].rt = "streaming" /\ ~dl[d].gz /\ dl[d].enc = "destroyed"
    /\ errorHandlers(dl[d]) = 2
    /\ dl[d].res.status = 500 /\ dl[d].res.errBody = 1 /\ dl[d].res.ended

\* C37: a response of the download route that carries Content-Encoding: gzip
\* has a gzip body: it never holds the plain JSON body of a 500 answer.
C37_GzipLabelMeansGzipBody ==
  \A d \in Dls : dl[d].res.gzipHeader => dl[d].res.errBody = 0

\* C38: a connection acquired by queryStream is released at most once: the
\* catch block and the iterator's finally block never both release it, and
\* a connection counts as released exactly when release() ran once.
C38_ReleasedAtMostOnce ==
  \A d \in Dls :
    /\ dl[d].releases <= 1
    /\ dl[d].releases = 1 <=> dl[d].conn = "released"
    /\ dl[d].failure \in {"begin", "declare"} => dl[d].fin = "none"

\* the consumer left the loop early (a rejected writeBatch returned the
\* iterator) and the finally block released the connection
C38_Witness ==
  \E d \in Dls :
    /\ dl[d].fin = "abandon" /\ dl[d].pos > 0
    /\ dl[d].conn = "released" /\ dl[d].releases = 1

\* the steps download d takes by itself: the encoder's awaits, pipe() and the
\* socket; a client that leaves and a gzip failure are events that need not
\* come
OwnStep(d) ==
  \/ ConnectOk(d) \/ ConnectFail(d) \/ BeginOk(d) \/ BeginFail(d)
  \/ DeclareOk(d) \/ DeclareFail(d) \/ FetchOk(d) \/ FetchFail(d)
  \/ CloseOk(d) \/ CloseFail(d) \/ CommitOk(d) \/ CommitFail(d)
  \/ WriteOk(d) \/ WriteFailInLoop(d) \/ WriteFailFinal(d)
  \/ FileChunk(d) \/ FileEnd(d) \/ FileError(d)
  \/ Pipe(d) \/ Flush(d)

\* download d set its job to in_progress and has no step left to take
stoppedDownload(d) ==
  /\ dl[d].rt \in {"setupfailed", "streaming"}
  /\ ~ENABLED OwnStep(d)

\* C34: a download that set its job to in_progress and has stopped has left
\* the job completed or failed; no job whose downloads have all stopped is
\* in_progress.
C34_StoppedDownloadSettlesJob ==
  \A id \in DOMAIN jobs :
    (/\ \E d \in Dls : dl[d].job = id /\ stoppedDownload(d)
     /\ \A d \in Dls : dl[d].job = id => stoppedDownload(d))
      => jobs[id].status \in {"completed", "failed"}

\* the stream of download d has ended or failed and its connection is back
\* in the pool
drained(d) ==
  /\ dl[d].endEmitted \/ dl[d].enc = "destroyed"
  /\ dl[d].conn # "held"

\* C33: when the process exits after SIGINT or SIGTERM, every export that
\* was in flight when the signal came has been drained: its stream has ended
\* or failed and its connection has been released.
C33_DrainedBeforeExit ==
  enc.pc = "exited" => \A d \in enc.inflight : drained(d)

\* the attributes of Record
AllowList == {"id", "created_at", "name", "value", "metadata"}

\* the request names a column source outside the allow-list
NamesOtherSource(req) ==
  \E i \in 1..Len(req.columns.items) :
    req.columns.items[i].obj /\ req.columns.items[i].source \notin AllowList

\* C11: every job in the registry (hence every SELECT composed from its
\* columns) uses only sources of the allow-list {id, created_at, name, value,
\* metadata}, and a create request naming another source is answered with 400
\* and creates no job.
C11_SourcesFromAllowList ==
  /\ \A j \in DOMAIN jobs : \A i \in 1..Len(jobs[j].columns) :
        jobs[j].columns[i].source \in AllowList
  /\ (post.status # 0 /\ NamesOtherSource(post.req))
        => (post.status = 400 /\ ~post.changed)

\* a request the claim C10 calls invalid; its column items are objects
RequestInvalid(req) ==
  /\ \A i \in 1..Len(req.columns.items) : req.columns.items[i].obj
  /\ \/ req.format \notin Formats
     \/ req.columns.kind # "array"
     \/ Len(req.columns.items) = 0
     \/ \E i \in 1..Len(req.columns.items) :
          req.columns.items[i].source = "" \/ req.columns.items[i].target = ""
     \/ req.compression \notin {Undefined, "gzip"}

\* a status change the state machine of a job allows
StatusStepAllowed(a, b) ==
  <<a, b>> \in {<<"pending", "in_progress">>,
                <<"in_progress", "completed">>,
                <<"in_progress", "failed">>}

\* download d passes updateJobStatus(id, 'in_progress') in this step
BeginsDownload(d) ==
  dl[d].rt = "idle" /\ dl'[d].rt \in {"streaming", "setupfailed"}

\* C1: a job's status changes only along pending -> in_progress,
\* in_progress -> completed and in_progress -> failed; a completed or failed
\* job never changes status again, and no download step sets in_progress on a
\* job that is already in_progress.
C1_StatusTransitions ==
  [][/\ \A j \in DOMAIN jobs :
          jobs'[j].status # jobs[j].status
            => StatusStepAllowed(jobs[j].status, jobs'[j].status)
     /\ \A d \in Dls :
          BeginsDownload(d) => jobs[dl'[d].job].status = "pending"]_vars

\* queryStream of download d is over: it threw, or its iterator is done
QueryStreamOver(r) == r.enc \in {"ended", "destroyed", "writefinal", "filestream"}

\* C2: once queryStream has obtained a client, every exit (cursor exhausted,
\* DECLARE or FETCH failure, the consumer leaving the loop) has closed the
\* cursor, committed the transaction and released the client: the client is
\* not left checked out and is not back in the pool with its transaction open.
C2_CursorReleaseDiscipline ==
  \A d \in Dls :
    (QueryStreamOver(dl[d]) /\ dl[d].conn # "none")
      => (dl[d].conn = "released" /\ ~dl[d].txn /\ dl[d].cursor # "open")

\* download d has stopped after one of its stages failed
StoppedOnFailure(r) ==
  r.failure # "none" /\ (r.rt = "setupfailed" \/ r.enc = "destroyed" \/ r.gzErr)

\* C3: when a stage of a download fails after the job was set to in_progress
\* (stream setup, cursor, encoder, compressor), the job is failed and carries
\* an error message.
C3_StageFailureMarksJobFailed ==
  \A d \in Dls :
    StoppedOnFailure(dl[d])
      => (jobs[dl[d].job].status = "failed" /\ Truthy(jobs[dl[d].job].error))

\* C4: when the client disconnects while rows are being streamed, the job
\* ends up failed with cause client_disconnected; it neither stays
\* in_progress nor becomes completed.  Stated for the download at rest: no
\* stage has failed and its encoder has ended.
C4_DisconnectFailsJob ==
  \A d \in Dls :
    (dl[d].midStream /\ dl[d].failure = "none" /\ dl[d].enc = "ended")
      => (jobs[dl[d].job].status = "failed"
          /\ jobs[dl[d].job].error = "client_disconnected")

\* C5: once a chunk of the body has been written to the response, no later
\* step writes an error status or a JSON error body to it.
C5_NoErrorBodyAfterBytes ==
  [][\A d \in Dls :
       dl[d].piped > 0
         => (dl'[d].res.errBody = dl[d].res.errBody
             /\ dl'[d].res.status = dl[d].res.status)]_vars

\* an error handler ended a response that had already carried body chunks
C5_Witness ==
  \E d \in Dls :
    /\ dl[d].piped > 0 /\ dl[d].enc = "destroyed" /\ dl[d].res.ended
    /\ dl[d].res.status = 200 /\ dl[d].res.errBody = 0

\* C6 (its last sentence): a download whose cursor could not be opened
\* (connect, BEGIN or DECLARE failed) is not answered with status 200.
C6_NoOkWithoutCursor ==
  \A d \in Dls :
    dl[d].failure \in {"connect", "begin", "declare"} => dl[d].res.status # 200

\* C7: the job is completed only when the encoder has ended and every chunk
\* it emitted has reached the client.
C7_CompletedAfterFlush ==
  \A d \in Dls :
    (dl[d].endEmitted /\ jobs[dl[d].job].status = "completed")
      => (dl[d].enc = "ended" /\ dl[d].flushed = Len(dl[d].out))

\* the first min(N, L) rows of the table, L the row limit when it is > 0
ExpectedRows ==
  [i \in 1..(IF envLimit > 0 THEN Min(Len(table), envLimit) ELSE Len(table)) |-> table[i]]

\* C8: a download that completes without error has emitted exactly the
\* first min(N, L) rows of the table, each once, in the database's order.
C8_RowsExactlyOnceInOrder ==
  \A d \in Dls :
    dl[d].endEmitted
      => rowsOf(SubSeq(dl[d].out, 1, dl[d].piped)) = ExpectedRows

\* a completed download of a table longer than one batch, cut by the row
\* limit to an exact multiple of the batch size
C8_Witness ==
  \E d \in Dls :
    /\ dl[d].endEmitted /\ dl[d].fmt = "csv"
    /\ Len(table) > BatchText /\ envLimit = BatchText
    /\ Len(rowsOf(dl[d].out)) = BatchText

\* the record the mapping asks for: one field per pair, in the mapping's order
mappedRecord(fmt, row, columns) ==
  [i \in 1..Len(columns) |-> <<fieldName(fmt, columns[i].target), row[columns[i].source]>>]

\* C9: for every accepted mapping M, repeated targets included, the record
\* emitted in every format has exactly |M| fields and its i-th field holds the
\* value of the i-th pair's source under the i-th pair's target name.
C9_RecordFollowsMapping ==
  enc.pc = "done" => enc.fields = mappedRecord(enc.fmt, enc.row, enc.columns)

\* C10: a POST /exports whose format is not csv, json, xml or parquet, whose
\* columns is missing, not an array or empty, that has a column with an empty
\* source or target, or whose compression is present and not gzip, is
\* answered with 400 and creates no job (the registry is left as it was).
C10_InvalidRequestRejected ==
  (post.status # 0 /\ RequestInvalid(post.req)) => (post.status = 400 /\ ~post.changed)

====
